---- MODULE Spec2Model ----
(***************************************************************************)
(* Risk aggregation of the rug checker (rug-checker.js, multi-chain and    *)
(* single-chain variants): silentScan / rugCheck collect six signal        *)
(* results and fold them into riskScore (0..100) and riskLevel.            *)
(*                                                                         *)
(* Numbers: percentages and USD amounts are JavaScript floats in the code; *)
(* they are modelled as integers (whole percent, whole dollars).  Every    *)
(* comparison in the scoring code is against an integer threshold, so each *)
(* bucket of every ladder and both sides of every threshold are covered by *)
(* the integer values below.  JavaScript null (contractAge, sellTax) is    *)
(* modelled by the out-of-range value -1 (NoAge, NoTax).                   *)
(*                                                                         *)
(* Specifications:                                                         *)
(*   Spec       - the scoring code over the collected signal results       *)
(*   SpecRescan - the same token scanned again and scored anew             *)
(*   SpecFetch  - one call of one fetcher over the answers of its services *)
(*   SpecScan   - a request from its entry point (command line, bot        *)
(*                message, bot buttons) through the six fetchers to the    *)
(*                verdict                                                  *)
(*   SpecPrice  - getNativeTokenPrice and its 60 s cache under overlapping *)
(*                calls                                                    *)
(*   SpecBot    - the Telegram bot's scanCache under pasted addresses and  *)
(*                the Full Report / Summary / Rescan buttons               *)
(*   SpecRpc    - getProvider and switchToBackupRpc over chain keys and    *)
(*                their aliases                                            *)
(*   SpecHolders - checkHolders' share loop and analyzeHolders over the    *)
(*                same holder list                                         *)
(***************************************************************************)
EXTENDS Integers, FiniteSets, Sequences, TLC

VARIABLES results, riskScore, riskLevel, pc, rescans,
          fetcher, upstream, fetched,
          entry, address, chainKnown, cacheHit, step, invoked, liquidityArg, mute,
          priceCache, now, callerPc, key, ret, how, calledAt, wrote, lastWriter, asked,
          scanCache, presses,
          providerCache, failedRpcs, lastCall,
          rows, analysed

\* one call of one fetcher: which one, what the outside world answers, and
\* the result once the call has settled (a set of at most one result)
fetchVars == <<fetcher, upstream, fetched>>

\* one request: where it entered, the address text and whether the chain
\* is a supported one, whether the bot has the scan cached, how many
\* fetchers have settled, which were called, what checkLiquidity was handed
\* (a set of at most one value), and the services that never answer the
\* fetcher being awaited
scanVars == <<entry, address, chainKnown, cacheHit, step, invoked, liquidityArg, mute>>

\* the native-price cache, the clock, and the calls of getNativeTokenPrice
priceVars == <<priceCache, now, callerPc, key, ret, how, calledAt, wrote, lastWriter, asked>>

\* the bot's scan cache and the button presses and messages being handled
botVars == <<scanCache, presses>>

\* the provider cache, the set of failed RPCs, and the last call of
\* getProvider / switchToBackupRpc with what it returned
rpcVars == <<providerCache, failedRpcs, lastCall>>

\* a holder list and what the holder analysers made of it (a set of at
\* most one pair of results)
holderVars == <<rows, analysed>>

vars == <<results, riskScore, riskLevel, pc, rescans, fetchVars, scanVars, priceVars,
          botVars, rpcVars, holderVars>>

\* ---------------------------------------------------------------- bounds
\* findings.critical / high / medium hold at most MaxFindings entries each
MaxFindings == 2

\* a token is scanned again at most MaxRescans times
MaxRescans == 2

\* ------------------------------------------------------- value encodings
NoAge == -1
NoTax == -1

Min(a, b) == IF a < b THEN a ELSE b

\* The six keys of the results object built by silentScan / rugCheck.
Slots == {"tokenInfo", "contractScan", "liquidity", "holders", "honeypot", "sentiment"}

\* ------------------------------------------------ signal results (slots)
\* A slot of the results object is either null (isNull) or the object a
\* fetcher returned; success is its `success` field.  The remaining fields
\* are the ones the scoring code reads; on a null or failed result they are
\* absent in the code and carry a fixed filler here.

\* The values are one per bucket of each ladder of the scoring code, with
\* the threshold itself (7, 30, 1000, 10000, 50000, 20, 50, 80, 10, 20, 30,
\* 50, 70) always among them, and the values of the two reference scans.
OwnerStatuses == {"renounced", "active", "no-owner-function"}
ContractAges == {NoAge, 3, 7, 30, 400}
LiquidityUSDs == {500, 1000, 10000, 50000, 200000}
SafePercents == {10, 20, 50, 80, 95}
Top1Percents == {5, 10, 20, 30, 40}
Top10Percents == {20, 50, 70, 80}
SellTaxes == {NoTax, 2, 5, 10, 20, 50, 60}
SentimentScores == {0, 50, 100}

\* checkTokenInfo: success result, or { success: false, ... } from the catch
TokenInfoOk ==
    [isNull : {FALSE}, success : {TRUE},
     ownerStatus : OwnerStatuses, contractAge : ContractAges]
TokenInfoFailed ==
    [isNull |-> FALSE, success |-> FALSE, ownerStatus |-> "undefined", contractAge |-> NoAge]
TokenInfoNull ==
    [isNull |-> TRUE, success |-> FALSE, ownerStatus |-> "undefined", contractAge |-> NoAge]

\* checkContractFunctions: findings.critical/high/medium are arrays; only
\* their lengths are read by the scoring code.
ContractScanOk ==
    [isNull : {FALSE}, success : {TRUE},
     critical : 0..MaxFindings, high : 0..MaxFindings, medium : 0..MaxFindings]
ContractScanFailed ==
    [isNull |-> FALSE, success |-> FALSE, critical |-> 0, high |-> 0, medium |-> 0]
ContractScanNull ==
    [isNull |-> TRUE, success |-> FALSE, critical |-> 0, high |-> 0, medium |-> 0]

\* checkLiquidity
LiquidityOk ==
    [isNull : {FALSE}, success : {TRUE},
     liquidityUSD : LiquidityUSDs, safePercent : SafePercents]
LiquidityFailed ==
    [isNull |-> FALSE, success |-> FALSE, liquidityUSD |-> 0, safePercent |-> 0]
LiquidityNull ==
    [isNull |-> TRUE, success |-> FALSE, liquidityUSD |-> 0, safePercent |-> 0]

\* checkHolders: top10Percent sums the first ten holders, the first of which
\* is the top1 holder, so top10Percent >= top1Percent.
HoldersOk ==
    {h \in [isNull : {FALSE}, success : {TRUE},
            top1Percent : Top1Percents, top10Percent : Top10Percents] :
        h.top10Percent >= h.top1Percent}
HoldersFailed ==
    [isNull |-> FALSE, success |-> FALSE, top1Percent |-> 0, top10Percent |-> 0]
HoldersNull ==
    [isNull |-> TRUE, success |-> FALSE, top1Percent |-> 0, top10Percent |-> 0]

\* checkHoneypot
HoneypotOk ==
    [isNull : {FALSE}, success : {TRUE},
     isHoneypot : BOOLEAN, cannotBuy : BOOLEAN, cannotSellAll : BOOLEAN,
     ownerCanChangeBalance : BOOLEAN, hiddenOwner : BOOLEAN,
     canTakeBackOwnership : BOOLEAN, sellTax : SellTaxes]
HoneypotFailed ==
    [isNull |-> FALSE, success |-> FALSE,
     isHoneypot |-> FALSE, cannotBuy |-> FALSE, cannotSellAll |-> FALSE,
     ownerCanChangeBalance |-> FALSE, hiddenOwner |-> FALSE,
     canTakeBackOwnership |-> FALSE, sellTax |-> NoTax]
HoneypotNull ==
    [isNull |-> TRUE, success |-> FALSE,
     isHoneypot |-> FALSE, cannotBuy |-> FALSE, cannotSellAll |-> FALSE,
     ownerCanChangeBalance |-> FALSE, hiddenOwner |-> FALSE,
     canTakeBackOwnership |-> FALSE, sellTax |-> NoTax]

\* checkSocialSentiment
SentimentOk ==
    [isNull : {FALSE}, success : {TRUE}, sentimentScore : SentimentScores]
SentimentFailed ==
    [isNull |-> FALSE, success |-> FALSE, sentimentScore |-> 0]
SentimentNull ==
    [isNull |-> TRUE, success |-> FALSE, sentimentScore |-> 0]

\* What each fetcher can hand to the scan, plus the null the slot holds
\* before the fetcher has been awaited.
SlotValues(k) ==
    CASE k = "tokenInfo"    -> TokenInfoOk \cup {TokenInfoFailed, TokenInfoNull}
      [] k = "contractScan" -> ContractScanOk \cup {ContractScanFailed, ContractScanNull}
      [] k = "liquidity"    -> LiquidityOk \cup {LiquidityFailed, LiquidityNull}
      [] k = "holders"      -> HoldersOk \cup {HoldersFailed, HoldersNull}
      [] k = "honeypot"     -> HoneypotOk \cup {HoneypotFailed, HoneypotNull}
      [] k = "sentiment"    -> SentimentOk \cup {SentimentFailed, SentimentNull}

\* ------------------------------------------------------------- scoring
\* `slot?.success`: undefined when the slot is null, else its success field.
\* A plain `slot.success` on null raises a TypeError instead.
\* Fault variant: the read without optional chaining.
SuccessNoOptionalChaining(slot) ==
    IF slot.isNull THEN "TypeError" ELSE IF slot.success THEN "true" ELSE "false"

OptSuccess(slot) ==
    IF slot.isNull THEN "undefined" ELSE IF slot.success THEN "true" ELSE "false"

\* JavaScript truthiness of the values OptSuccess yields
Truthy(v) == v = "true"

\* Token Info block: owner active +15; age < 7 +10, else age < 30 +5
\* Fault variant: the first age comparison reversed.
TokenInfoPointsAgeFlipped(r) ==
    IF Truthy(OptSuccess(r.tokenInfo))
    THEN (IF r.tokenInfo.ownerStatus = "active" THEN 15 ELSE 0)
       + (IF r.tokenInfo.contractAge # NoAge
          THEN (IF r.tokenInfo.contractAge > 7 THEN 10
                ELSE IF r.tokenInfo.contractAge < 30 THEN 5 ELSE 0)
          ELSE 0)
    ELSE 0

TokenInfoPoints(r) ==
    IF Truthy(OptSuccess(r.tokenInfo))
    THEN (IF r.tokenInfo.ownerStatus = "active" THEN 15 ELSE 0)
       + (IF r.tokenInfo.contractAge # NoAge
          THEN (IF r.tokenInfo.contractAge < 7 THEN 10
                ELSE IF r.tokenInfo.contractAge < 30 THEN 5 ELSE 0)
          ELSE 0)
    ELSE 0

\* Contract Functions block: 10/5/2 per critical/high/medium finding,
\* else (scan failed or slot null) +15
ContractScanPoints(r) ==
    IF Truthy(OptSuccess(r.contractScan))
    THEN r.contractScan.critical * 10
       + r.contractScan.high * 5
       + r.contractScan.medium * 2
    ELSE 15

\* Liquidity block: USD ladder plus safePercent ladder, else +20
\* Fault variant: no penalty when the liquidity probe failed.
LiquidityPointsNoPenalty(r) ==
    IF Truthy(OptSuccess(r.liquidity))
    THEN (IF r.liquidity.liquidityUSD < 1000 THEN 15
          ELSE IF r.liquidity.liquidityUSD < 10000 THEN 10
          ELSE IF r.liquidity.liquidityUSD < 50000 THEN 5 ELSE 0)
       + (IF r.liquidity.safePercent < 20 THEN 10
          ELSE IF r.liquidity.safePercent < 50 THEN 7
          ELSE IF r.liquidity.safePercent < 80 THEN 3 ELSE 0)
    ELSE 0

LiquidityPoints(r) ==
    IF Truthy(OptSuccess(r.liquidity))
    THEN (IF r.liquidity.liquidityUSD < 1000 THEN 15
          ELSE IF r.liquidity.liquidityUSD < 10000 THEN 10
          ELSE IF r.liquidity.liquidityUSD < 50000 THEN 5 ELSE 0)
       + (IF r.liquidity.safePercent < 20 THEN 10
          ELSE IF r.liquidity.safePercent < 50 THEN 7
          ELSE IF r.liquidity.safePercent < 80 THEN 3 ELSE 0)
    ELSE 20

\* Holders block: top1 ladder plus top10 ladder; no else branch
\* Fault variant: inclusive thresholds.
HoldersPointsInclusive(r) ==
    IF Truthy(OptSuccess(r.holders))
    THEN (IF r.holders.top1Percent >= 30 THEN 15
          ELSE IF r.holders.top1Percent >= 20 THEN 10
          ELSE IF r.holders.top1Percent >= 10 THEN 5 ELSE 0)
       + (IF r.holders.top10Percent >= 70 THEN 10
          ELSE IF r.holders.top10Percent >= 50 THEN 5 ELSE 0)
    ELSE 0

HoldersPoints(r) ==
    IF Truthy(OptSuccess(r.holders))
    THEN (IF r.holders.top1Percent > 30 THEN 15
          ELSE IF r.holders.top1Percent > 20 THEN 10
          ELSE IF r.holders.top1Percent > 10 THEN 5 ELSE 0)
       + (IF r.holders.top10Percent > 70 THEN 10
          ELSE IF r.holders.top10Percent > 50 THEN 5 ELSE 0)
    ELSE 0

\* `results.honeypot.sellTax || 0`
SellTaxOrZero(h) == IF h.sellTax = NoTax THEN 0 ELSE h.sellTax

\* Honeypot block: flags plus sell-tax ladder; no else branch
\* Fault variant: 5 instead of 50 for isHoneypot.
HoneypotPointsTypo(r) ==
    IF Truthy(OptSuccess(r.honeypot))
    THEN (IF r.honeypot.isHoneypot THEN 5 ELSE 0)
       + (IF r.honeypot.cannotBuy THEN 20 ELSE 0)
       + (IF r.honeypot.cannotSellAll THEN 20 ELSE 0)
       + (IF r.honeypot.ownerCanChangeBalance THEN 15 ELSE 0)
       + (IF r.honeypot.hiddenOwner THEN 10 ELSE 0)
       + (IF r.honeypot.canTakeBackOwnership THEN 10 ELSE 0)
       + (IF SellTaxOrZero(r.honeypot) > 50 THEN 25
          ELSE IF SellTaxOrZero(r.honeypot) > 20 THEN 10
          ELSE IF SellTaxOrZero(r.honeypot) > 10 THEN 5 ELSE 0)
    ELSE 0

HoneypotPoints(r) ==
    IF Truthy(OptSuccess(r.honeypot))
    THEN (IF r.honeypot.isHoneypot THEN 50 ELSE 0)
       + (IF r.honeypot.cannotBuy THEN 20 ELSE 0)
       + (IF r.honeypot.cannotSellAll THEN 20 ELSE 0)
       + (IF r.honeypot.ownerCanChangeBalance THEN 15 ELSE 0)
       + (IF r.honeypot.hiddenOwner THEN 10 ELSE 0)
       + (IF r.honeypot.canTakeBackOwnership THEN 10 ELSE 0)
       + (IF SellTaxOrZero(r.honeypot) > 50 THEN 25
          ELSE IF SellTaxOrZero(r.honeypot) > 20 THEN 10
          ELSE IF SellTaxOrZero(r.honeypot) > 10 THEN 5 ELSE 0)
    ELSE 0

\* riskScore after the five blocks, before Math.min
\* Fault variant: failed signals left out of the sum.
RawScoreSkipFailed(r) ==
      TokenInfoPoints(r)
    + (IF Truthy(OptSuccess(r.contractScan)) THEN ContractScanPoints(r) ELSE 0)
    + (IF Truthy(OptSuccess(r.liquidity)) THEN LiquidityPoints(r) ELSE 0)
    + HoldersPoints(r) + HoneypotPoints(r)

\* Fault variant: a sixth block that adds 5 for a weak sentiment score.
RawScoreWithSentiment(r) ==
      TokenInfoPoints(r) + ContractScanPoints(r) + LiquidityPoints(r)
    + HoldersPoints(r) + HoneypotPoints(r)
    + (IF Truthy(OptSuccess(r.sentiment)) /\ r.sentiment.sentimentScore < 50
       THEN 5 ELSE 0)

RawScore(r) ==
      TokenInfoPoints(r) + ContractScanPoints(r) + LiquidityPoints(r)
    + HoldersPoints(r) + HoneypotPoints(r)

\* riskScore = Math.min(riskScore, 100)
\* Fault variant: the cap left out.
ClampScoreMissing(s) == s

ClampScore(s) == Min(s, 100)

\* riskLevel / overallRisk from the clamped score
\* Fault variant: strict cut points.
RiskLevelOfStrict(score) ==
    IF score > 75 THEN "CRITICAL"
    ELSE IF score > 50 THEN "HIGH"
    ELSE IF score > 25 THEN "MEDIUM"
    ELSE "LOW"

RiskLevelOf(score) ==
    IF score >= 75 THEN "CRITICAL"
    ELSE IF score >= 50 THEN "HIGH"
    ELSE IF score >= 25 THEN "MEDIUM"
    ELSE "LOW"

\* The scoring code raises iff one of its five `?.success` reads raises.
ScoreThrows(r) ==
    \E k \in Slots \ {"sentiment"} : OptSuccess(r[k]) = "TypeError"

\* ---- the other copies of the scoring code
\* silentScan of the multi-chain scanner is ScoreOutcome above; the three
\* operators below are its copies in rugCheck of the multi-chain scanner and
\* in rugCheck and silentScan of the single-chain scanner, each written out
\* from its own source as the function from the results object to the
\* score and the verdict.

\* Fault variant: a failed liquidity probe adds 25 instead of 20.
rugCheckMultiChainDrifted(r) ==
    LET tokenInfo ==
            IF ~r.tokenInfo.isNull /\ r.tokenInfo.success
            THEN (IF r.tokenInfo.ownerStatus = "active" THEN 15 ELSE 0)
               + (IF r.tokenInfo.contractAge = NoAge THEN 0
                  ELSE IF r.tokenInfo.contractAge < 7 THEN 10
                  ELSE IF r.tokenInfo.contractAge < 30 THEN 5 ELSE 0)
            ELSE 0
        contractScan ==
            IF ~r.contractScan.isNull /\ r.contractScan.success
            THEN r.contractScan.critical * 10 + r.contractScan.high * 5
               + r.contractScan.medium * 2
            ELSE 15
        liquidity ==
            IF ~r.liquidity.isNull /\ r.liquidity.success
            THEN (IF r.liquidity.liquidityUSD < 1000 THEN 15
                  ELSE IF r.liquidity.liquidityUSD < 10000 THEN 10
                  ELSE IF r.liquidity.liquidityUSD < 50000 THEN 5 ELSE 0)
               + (IF r.liquidity.safePercent < 20 THEN 10
                  ELSE IF r.liquidity.safePercent < 50 THEN 7
                  ELSE IF r.liquidity.safePercent < 80 THEN 3 ELSE 0)
            ELSE 25
        holders ==
            IF ~r.holders.isNull /\ r.holders.success
            THEN (IF r.holders.top1Percent > 30 THEN 15
                  ELSE IF r.holders.top1Percent > 20 THEN 10
                  ELSE IF r.holders.top1Percent > 10 THEN 5 ELSE 0)
               + (IF r.holders.top10Percent > 70 THEN 10
                  ELSE IF r.holders.top10Percent > 50 THEN 5 ELSE 0)
            ELSE 0
        sellTax == IF r.honeypot.sellTax = NoTax THEN 0 ELSE r.honeypot.sellTax
        honeypot ==
            IF ~r.honeypot.isNull /\ r.honeypot.success
            THEN (IF r.honeypot.isHoneypot THEN 50 ELSE 0)
               + (IF r.honeypot.cannotBuy THEN 20 ELSE 0)
               + (IF r.honeypot.cannotSellAll THEN 20 ELSE 0)
               + (IF r.honeypot.ownerCanChangeBalance THEN 15 ELSE 0)
               + (IF r.honeypot.hiddenOwner THEN 10 ELSE 0)
               + (IF r.honeypot.canTakeBackOwnership THEN 10 ELSE 0)
               + (IF sellTax > 50 THEN 25
                  ELSE IF sellTax > 20 THEN 10
                  ELSE IF sellTax > 10 THEN 5 ELSE 0)
            ELSE 0
        capped == Min(tokenInfo + contractScan + liquidity + holders + honeypot, 100)
    IN  [riskScore |-> capped,
         overallRisk |-> IF capped >= 75 THEN "CRITICAL"
                       ELSE IF capped >= 50 THEN "HIGH"
                       ELSE IF capped >= 25 THEN "MEDIUM"
                       ELSE "LOW"]

\* rugCheck, multi-chain scanner: `let riskScore = 0` ... `overallRisk`
rugCheckMultiChain(r) ==
    LET tokenInfo ==
            IF ~r.tokenInfo.isNull /\ r.tokenInfo.success
            THEN (IF r.tokenInfo.ownerStatus = "active" THEN 15 ELSE 0)
               + (IF r.tokenInfo.contractAge = NoAge THEN 0
                  ELSE IF r.tokenInfo.contractAge < 7 THEN 10
                  ELSE IF r.tokenInfo.contractAge < 30 THEN 5 ELSE 0)
            ELSE 0
        contractScan ==
            IF ~r.contractScan.isNull /\ r.contractScan.success
            THEN r.contractScan.critical * 10 + r.contractScan.high * 5
               + r.contractScan.medium * 2
            ELSE 15
        liquidity ==
            IF ~r.liquidity.isNull /\ r.liquidity.success
            THEN (IF r.liquidity.liquidityUSD < 1000 THEN 15
                  ELSE IF r.liquidity.liquidityUSD < 10000 THEN 10
                  ELSE IF r.liquidity.liquidityUSD < 50000 THEN 5 ELSE 0)
               + (IF r.liquidity.safePercent < 20 THEN 10
                  ELSE IF r.liquidity.safePercent < 50 THEN 7
                  ELSE IF r.liquidity.safePercent < 80 THEN 3 ELSE 0)
            ELSE 20
        holders ==
            IF ~r.holders.isNull /\ r.holders.success
            THEN (IF r.holders.top1Percent > 30 THEN 15
                  ELSE IF r.holders.top1Percent > 20 THEN 10
                  ELSE IF r.holders.top1Percent > 10 THEN 5 ELSE 0)
               + (IF r.holders.top10Percent > 70 THEN 10
                  ELSE IF r.holders.top10Percent > 50 THEN 5 ELSE 0)
            ELSE 0
        sellTax == IF r.honeypot.sellTax = NoTax THEN 0 ELSE r.honeypot.sellTax
        honeypot ==
            IF ~r.honeypot.isNull /\ r.honeypot.success
            THEN (IF r.honeypot.isHoneypot THEN 50 ELSE 0)
               + (IF r.honeypot.cannotBuy THEN 20 ELSE 0)
               + (IF r.honeypot.cannotSellAll THEN 20 ELSE 0)
               + (IF r.honeypot.ownerCanChangeBalance THEN 15 ELSE 0)
               + (IF r.honeypot.hiddenOwner THEN 10 ELSE 0)
               + (IF r.honeypot.canTakeBackOwnership THEN 10 ELSE 0)
               + (IF sellTax > 50 THEN 25
                  ELSE IF sellTax > 20 THEN 10
                  ELSE IF sellTax > 10 THEN 5 ELSE 0)
            ELSE 0
        capped == Min(tokenInfo + contractScan + liquidity + holders + honeypot, 100)
    IN  [riskScore |-> capped,
         overallRisk |-> IF capped >= 75 THEN "CRITICAL"
                       ELSE IF capped >= 50 THEN "HIGH"
                       ELSE IF capped >= 25 THEN "MEDIUM"
                       ELSE "LOW"]

\* rugCheck, single-chain scanner
rugCheckSingleChain(r) ==
    LET tokenInfo ==
            IF ~r.tokenInfo.isNull /\ r.tokenInfo.success
            THEN (IF r.tokenInfo.ownerStatus = "active" THEN 15 ELSE 0)
               + (IF r.tokenInfo.contractAge = NoAge THEN 0
                  ELSE IF r.tokenInfo.contractAge < 7 THEN 10
                  ELSE IF r.tokenInfo.contractAge < 30 THEN 5 ELSE 0)
            ELSE 0
        contractScan ==
            IF ~r.contractScan.isNull /\ r.contractScan.success
            THEN r.contractScan.critical * 10 + r.contractScan.high * 5
               + r.contractScan.medium * 2
            ELSE 15
        liquidity ==
            IF ~r.liquidity.isNull /\ r.liquidity.success
            THEN (IF r.liquidity.liquidityUSD < 1000 THEN 15
                  ELSE IF r.liquidity.liquidityUSD < 10000 THEN 10
                  ELSE IF r.liquidity.liquidityUSD < 50000 THEN 5 ELSE 0)
               + (IF r.liquidity.safePercent < 20 THEN 10
                  ELSE IF r.liquidity.safePercent < 50 THEN 7
                  ELSE IF r.liquidity.safePercent < 80 THEN 3 ELSE 0)
            ELSE 20
        holders ==
            IF ~r.holders.isNull /\ r.holders.success
            THEN (IF r.holders.top1Percent > 30 THEN 15
                  ELSE IF r.holders.top1Percent > 20 THEN 10
                  ELSE IF r.holders.top1Percent > 10 THEN 5 ELSE 0)
               + (IF r.holders.top10Percent > 70 THEN 10
                  ELSE IF r.holders.top10Percent > 50 THEN 5 ELSE 0)
            ELSE 0
        sellTax == IF r.honeypot.sellTax = NoTax THEN 0 ELSE r.honeypot.sellTax
        honeypot ==
            IF ~r.honeypot.isNull /\ r.honeypot.success
            THEN (IF r.honeypot.isHoneypot THEN 50 ELSE 0)
               + (IF r.honeypot.cannotBuy THEN 20 ELSE 0)
               + (IF r.honeypot.cannotSellAll THEN 20 ELSE 0)
               + (IF r.honeypot.ownerCanChangeBalance THEN 15 ELSE 0)
               + (IF r.honeypot.hiddenOwner THEN 10 ELSE 0)
               + (IF r.honeypot.canTakeBackOwnership THEN 10 ELSE 0)
               + (IF sellTax > 50 THEN 25
                  ELSE IF sellTax > 20 THEN 10
                  ELSE IF sellTax > 10 THEN 5 ELSE 0)
            ELSE 0
        capped == Min(tokenInfo + contractScan + liquidity + holders + honeypot, 100)
    IN  [riskScore |-> capped,
         overallRisk |-> IF capped >= 75 THEN "CRITICAL"
                       ELSE IF capped >= 50 THEN "HIGH"
                       ELSE IF capped >= 25 THEN "MEDIUM"
                       ELSE "LOW"]

\* silentScan, single-chain scanner
silentScanSingleChain(r) ==
    LET tokenInfo ==
            IF ~r.tokenInfo.isNull /\ r.tokenInfo.success
            THEN (IF r.tokenInfo.ownerStatus = "active" THEN 15 ELSE 0)
               + (IF r.tokenInfo.contractAge = NoAge THEN 0
                  ELSE IF r.tokenInfo.contractAge < 7 THEN 10
                  ELSE IF r.tokenInfo.contractAge < 30 THEN 5 ELSE 0)
            ELSE 0
        contractScan ==
            IF ~r.contractScan.isNull /\ r.contractScan.success
            THEN r.contractScan.critical * 10 + r.contractScan.high * 5
               + r.contractScan.medium * 2
            ELSE 15
        liquidity ==
            IF ~r.liquidity.isNull /\ r.liquidity.success
            THEN (IF r.liquidity.liquidityUSD < 1000 THEN 15
                  ELSE IF r.liquidity.liquidityUSD < 10000 THEN 10
                  ELSE IF r.liquidity.liquidityUSD < 50000 THEN 5 ELSE 0)
               + (IF r.liquidity.safePercent < 20 THEN 10
                  ELSE IF r.liquidity.safePercent < 50 THEN 7
                  ELSE IF r.liquidity.safePercent < 80 THEN 3 ELSE 0)
            ELSE 20
        holders ==
            IF ~r.holders.isNull /\ r.holders.success
            THEN (IF r.holders.top1Percent > 30 THEN 15
                  ELSE IF r.holders.top1Percent > 20 THEN 10
                  ELSE IF r.holders.top1Percent > 10 THEN 5 ELSE 0)
               + (IF r.holders.top10Percent > 70 THEN 10
                  ELSE IF r.holders.top10Percent > 50 THEN 5 ELSE 0)
            ELSE 0
        sellTax == IF r.honeypot.sellTax = NoTax THEN 0 ELSE r.honeypot.sellTax
        honeypot ==
            IF ~r.honeypot.isNull /\ r.honeypot.success
            THEN (IF r.honeypot.isHoneypot THEN 50 ELSE 0)
               + (IF r.honeypot.cannotBuy THEN 20 ELSE 0)
               + (IF r.honeypot.cannotSellAll THEN 20 ELSE 0)
               + (IF r.honeypot.ownerCanChangeBalance THEN 15 ELSE 0)
               + (IF r.honeypot.hiddenOwner THEN 10 ELSE 0)
               + (IF r.honeypot.canTakeBackOwnership THEN 10 ELSE 0)
               + (IF sellTax > 50 THEN 25
                  ELSE IF sellTax > 20 THEN 10
                  ELSE IF sellTax > 10 THEN 5 ELSE 0)
            ELSE 0
        capped == Min(tokenInfo + contractScan + liquidity + holders + honeypot, 100)
    IN  [riskScore |-> capped,
         riskLevel |-> IF capped >= 75 THEN "CRITICAL"
                       ELSE IF capped >= 50 THEN "HIGH"
                       ELSE IF capped >= 25 THEN "MEDIUM"
                       ELSE "LOW"]

\* ----------------------------------------------------- scanned signal sets
\* Three reference scans: every check clean, every check adverse (no
\* honeypot), every fetcher failed.
CleanScan ==
    [tokenInfo    |-> [isNull |-> FALSE, success |-> TRUE,
                       ownerStatus |-> "renounced", contractAge |-> 400],
     contractScan |-> [isNull |-> FALSE, success |-> TRUE,
                       critical |-> 0, high |-> 0, medium |-> 0],
     liquidity    |-> [isNull |-> FALSE, success |-> TRUE,
                       liquidityUSD |-> 200000, safePercent |-> 95],
     holders      |-> [isNull |-> FALSE, success |-> TRUE,
                       top1Percent |-> 5, top10Percent |-> 20],
     honeypot     |-> [isNull |-> FALSE, success |-> TRUE,
                       isHoneypot |-> FALSE, cannotBuy |-> FALSE,
                       cannotSellAll |-> FALSE, ownerCanChangeBalance |-> FALSE,
                       hiddenOwner |-> FALSE, canTakeBackOwnership |-> FALSE,
                       sellTax |-> 2],
     sentiment    |-> [isNull |-> FALSE, success |-> TRUE, sentimentScore |-> 50]]

AdverseScan ==
    [tokenInfo    |-> [isNull |-> FALSE, success |-> TRUE,
                       ownerStatus |-> "active", contractAge |-> 3],
     contractScan |-> [isNull |-> FALSE, success |-> TRUE,
                       critical |-> 1, high |-> 0, medium |-> 0],
     liquidity    |-> [isNull |-> FALSE, success |-> TRUE,
                       liquidityUSD |-> 500, safePercent |-> 10],
     holders      |-> [isNull |-> FALSE, success |-> TRUE,
                       top1Percent |-> 40, top10Percent |-> 80],
     honeypot     |-> [isNull |-> FALSE, success |-> TRUE,
                       isHoneypot |-> FALSE, cannotBuy |-> FALSE,
                       cannotSellAll |-> FALSE, ownerCanChangeBalance |-> FALSE,
                       hiddenOwner |-> FALSE, canTakeBackOwnership |-> FALSE,
                       sellTax |-> 5],
     sentiment    |-> [isNull |-> FALSE, success |-> TRUE, sentimentScore |-> 50]]

FailedScan ==
    [tokenInfo    |-> TokenInfoFailed,
     contractScan |-> ContractScanFailed,
     liquidity    |-> LiquidityFailed,
     holders      |-> HoldersFailed,
     honeypot     |-> HoneypotFailed,
     sentiment    |-> SentimentFailed]

ReferenceScans == {CleanScan, AdverseScan, FailedScan}

\* ------------------------------------------------------------ fetchers
\* What the outside world answers to one fetcher call is the record
\* `upstream`; each fetcher is the function from that record to the object
\* it returns.  A result carries threw (the async function rejected),
\* success, risk ("undefined" when the object has no risk field) and the
\* fields the scoring code reads.

Fetchers == Slots

RiskLabels == {"LOW", "MEDIUM", "HIGH", "CRITICAL"}

\* An ethers contract call returns, reverts, or fails in transport; the
\* last two reject the promise.
RpcOutcomes == {"ok", "reverted", "error"}

\* fetchJSON: a body that parses, a request error, the 15 s timeout, or a
\* body that does not parse.
HttpOutcomes == {"ok", "error", "timeout", "unparsable"}

\* global fetch + response.json() of the Moralis call: the rejecting
\* outcomes are caught by checkHolders.
FetchOutcomes == {"ok", "error", "unparsable"}

\* fetchJSON resolves with the parsed body, and with null on every failure.
fetchJSON(http) == IF http = "ok" THEN "data" ELSE "null"

ZeroAddress == "0x0000000000000000000000000000000000000000"
BURN_ADDRESSES ==
    {"0x0000000000000000000000000000000000000000",
     "0x000000000000000000000000000000000000dead",
     "0xdead000000000000000042069420694206942069",
     "0x0000000000000000000000000000000000000001"}
\* what owner() can return: a burn address or an ordinary wallet
OwnerAddresses == BURN_ADDRESSES \cup {"0x95ad61b0a150d79219dcf64e1e6cc01f0b64c4ce"}

\* getChainConfig / getProvider throw on an unsupported chain, outside any
\* try block of the fetcher.
Threw == [threw |-> TRUE]
UnsupportedChain == [chainSupported |-> FALSE]

\* ---- checkTokenInfo
TokenInfoUpstreams ==
    [chainSupported : {TRUE},
     erc20 : RpcOutcomes,            \* name/symbol/decimals/totalSupply
     owner : RpcOutcomes, ownerAddress : OwnerAddresses,
     apiKey : BOOLEAN,               \* chain.explorer.apiKey configured
     txlist : HttpOutcomes,          \* explorer txlist request
     age : ContractAges]             \* days since result[0]; NoAge: no result[0]

checkTokenInfo(u) ==
    IF ~u.chainSupported THEN Threw
    ELSE IF u.erc20 # "ok"
    THEN [threw |-> FALSE, success |-> FALSE, risk |-> "UNKNOWN",
          ownerStatus |-> "undefined", contractAge |-> NoAge]
    ELSE LET ownerStatus ==
                 IF u.owner # "ok" THEN "no-owner-function"
                 ELSE IF u.ownerAddress = ZeroAddress THEN "renounced"
                 ELSE "active"
             contractAge ==
                 IF u.apiKey /\ fetchJSON(u.txlist) = "data" THEN u.age ELSE NoAge
         IN  [threw |-> FALSE, success |-> TRUE,
              risk |-> IF ownerStatus = "active" THEN "MEDIUM" ELSE "LOW",
              ownerStatus |-> ownerStatus, contractAge |-> contractAge]

\* ---- checkContractFunctions
NoFindings == [critical |-> 0, high |-> 0, medium |-> 0]
FindingCounts == [critical : 0..MaxFindings, high : 0..MaxFindings, medium : 0..MaxFindings]

ContractScanUpstreams ==
    [chainSupported : {TRUE}, apiKey : BOOLEAN,
     getabi : HttpOutcomes \ {"ok"}, status : {"1"}, abiParses : {TRUE},
     findings : {NoFindings}]
    \cup
    [chainSupported : {TRUE}, apiKey : {TRUE},
     getabi : {"ok"}, status : {"0", "1"}, abiParses : BOOLEAN,
     findings : FindingCounts]

\* Fault variant: the ABI is parsed outside the try block.
checkContractFunctionsParseOutsideTry(u) ==
    IF ~u.chainSupported THEN Threw
    ELSE IF ~u.apiKey \/ fetchJSON(u.getabi) = "null" \/ u.status # "1"
    THEN [threw |-> FALSE, success |-> FALSE, risk |-> "UNKNOWN"] @@ NoFindings
    ELSE IF ~u.abiParses
    THEN Threw
    ELSE [threw |-> FALSE, success |-> TRUE, risk |-> "LOW"] @@ u.findings

checkContractFunctions(u) ==
    IF ~u.chainSupported THEN Threw
    ELSE IF ~u.apiKey
    THEN [threw |-> FALSE, success |-> FALSE, risk |-> "UNKNOWN"] @@ NoFindings
    ELSE IF fetchJSON(u.getabi) = "null" \/ u.status # "1"
    THEN [threw |-> FALSE, success |-> FALSE, risk |-> "UNKNOWN"] @@ NoFindings
    ELSE IF ~u.abiParses           \* JSON.parse(result.result) throws: catch
    THEN [threw |-> FALSE, success |-> FALSE, risk |-> "UNKNOWN"] @@ NoFindings
    ELSE [threw |-> FALSE, success |-> TRUE,
          risk |-> IF u.findings.critical > 0 THEN "CRITICAL"
                   ELSE IF u.findings.high >= 2 THEN "HIGH"
                   ELSE IF u.findings.high > 0 \/ u.findings.medium >= 2 THEN "MEDIUM"
                   ELSE "LOW"] @@ u.findings

Max(a, b) == IF a > b THEN a ELSE b

\* ---- checkLiquidity
\* dexPair: DexScreener lists a pair of this chain with a price;
\* pair: factory.getPair / token0 / getReserves ("none": the zero address);
\* poolLiquidity: nativeAmount * nativePrice * 2 of that pair;
\* lpSupply: pair.totalSupply(); safePercent: burned + locked share of it.
LiquidityUpstreams ==
    [chainSupported : {TRUE},
     dex : HttpOutcomes, dexPair : BOOLEAN, dexLiquidity : LiquidityUSDs,
     pair : RpcOutcomes \cup {"none"}, poolLiquidity : {0} \cup LiquidityUSDs,
     lpSupply : RpcOutcomes, safePercent : SafePercents]

\* Fault variant: the HIGH test comes before the MEDIUM test.
checkLiquidityHighFirst(u) ==
    IF ~u.chainSupported THEN Threw
    ELSE LET priceFromDex == fetchJSON(u.dex) = "data" /\ u.dexPair
             dexScreenerLiquidity == IF priceFromDex THEN u.dexLiquidity ELSE 0
             pairFound == u.pair = "ok" /\ u.poolLiquidity > 0
             dexLiquidity == IF pairFound THEN u.poolLiquidity ELSE 0
             liquidityUSD == Max(dexScreenerLiquidity, dexLiquidity)
             safePercent ==
                 IF pairFound /\ u.lpSupply = "ok" THEN u.safePercent ELSE 0
         IN  IF ~priceFromDex /\ ~pairFound      \* priceInUSD === 0
             THEN [threw |-> FALSE, success |-> FALSE, risk |-> "CRITICAL",
                   liquidityUSD |-> 0, safePercent |-> 0]
             ELSE [threw |-> FALSE, success |-> TRUE,
                   risk |-> IF liquidityUSD < 10000 /\ safePercent < 50 THEN "CRITICAL"
                            ELSE IF safePercent < 50 THEN "HIGH"
                            ELSE IF liquidityUSD < 50000 \/ safePercent < 80 THEN "MEDIUM"
                            ELSE "LOW",
                   liquidityUSD |-> liquidityUSD, safePercent |-> safePercent]

\* Every awaited call sits in an inner try block and getNativeTokenPrice
\* does not throw on a supported chain, so the outer catch (risk UNKNOWN)
\* is not reached by any answer of the services.
checkLiquidity(u) ==
    IF ~u.chainSupported THEN Threw
    ELSE LET priceFromDex == fetchJSON(u.dex) = "data" /\ u.dexPair
             dexScreenerLiquidity == IF priceFromDex THEN u.dexLiquidity ELSE 0
             pairFound == u.pair = "ok" /\ u.poolLiquidity > 0
             dexLiquidity == IF pairFound THEN u.poolLiquidity ELSE 0
             liquidityUSD == Max(dexScreenerLiquidity, dexLiquidity)
             safePercent ==
                 IF pairFound /\ u.lpSupply = "ok" THEN u.safePercent ELSE 0
         IN  IF ~priceFromDex /\ ~pairFound      \* priceInUSD === 0
             THEN [threw |-> FALSE, success |-> FALSE, risk |-> "CRITICAL",
                   liquidityUSD |-> 0, safePercent |-> 0]
             ELSE [threw |-> FALSE, success |-> TRUE,
                   risk |-> IF liquidityUSD < 10000 /\ safePercent < 50 THEN "CRITICAL"
                            ELSE IF liquidityUSD < 50000 \/ safePercent < 80 THEN "MEDIUM"
                            ELSE IF safePercent < 50 THEN "HIGH"
                            ELSE "LOW",
                   liquidityUSD |-> liquidityUSD, safePercent |-> safePercent]

\* ---- checkHolders
NoShares == [top1Percent |-> 0, top10Percent |-> 0]
HolderShares ==
    {h \in [top1Percent : Top1Percents, top10Percent : Top10Percents] :
        h.top10Percent >= h.top1Percent}

\* moralisRows: data.result is a non-empty array; goplusRows: code === 1
\* and the token has a non-empty holders array.
HoldersUpstreams ==
    [chainSupported : {TRUE},
     moralis : FetchOutcomes, moralisRows : BOOLEAN,
     goplus : HttpOutcomes, goplusRows : BOOLEAN,
     shares : HolderShares]

HolderRisk(h) ==
    IF h.top1Percent > 30 THEN "CRITICAL"
    ELSE IF h.top1Percent > 20 \/ h.top10Percent > 70 THEN "HIGH"
    ELSE IF h.top1Percent > 10 \/ h.top10Percent > 50 THEN "MEDIUM"
    ELSE "LOW"

\* Fault variant: GoPlus is asked first and Moralis is the fallback.
checkHoldersGoPlusFirst(u) ==
    IF ~u.chainSupported THEN Threw
    ELSE IF fetchJSON(u.goplus) = "data" /\ u.goplusRows
    THEN [threw |-> FALSE, success |-> TRUE, risk |-> HolderRisk(u.shares),
          source |-> "GoPlus"] @@ u.shares
    ELSE IF u.moralis = "ok" /\ u.moralisRows
    THEN [threw |-> FALSE, success |-> TRUE, risk |-> HolderRisk(u.shares),
          source |-> "Moralis"] @@ u.shares
    ELSE [threw |-> FALSE, success |-> FALSE, risk |-> "UNKNOWN",
          source |-> "none"] @@ NoShares

checkHolders(u) ==
    IF ~u.chainSupported THEN Threw
    ELSE IF u.moralis = "ok" /\ u.moralisRows
    THEN [threw |-> FALSE, success |-> TRUE, risk |-> HolderRisk(u.shares),
          source |-> "Moralis"] @@ u.shares
    ELSE IF fetchJSON(u.goplus) = "data" /\ u.goplusRows
    THEN [threw |-> FALSE, success |-> TRUE, risk |-> HolderRisk(u.shares),
          source |-> "GoPlus"] @@ u.shares
    ELSE [threw |-> FALSE, success |-> FALSE, risk |-> "UNKNOWN",
          source |-> "none"] @@ NoShares

\* ---- checkHoneypot
\* The token's GoPlus entry: the flags and the sell tax the scoring code
\* reads, is_mintable, and the number of set flags among is_proxy,
\* transfer_pausable, is_blacklisted, trading_cooldown.
HoneypotFlags ==
    [isHoneypot : BOOLEAN, cannotBuy : BOOLEAN, cannotSellAll : BOOLEAN,
     ownerCanChangeBalance : BOOLEAN, hiddenOwner : BOOLEAN,
     canTakeBackOwnership : BOOLEAN, sellTax : SellTaxes]
NoFlags ==
    [isHoneypot |-> FALSE, cannotBuy |-> FALSE, cannotSellAll |-> FALSE,
     ownerCanChangeBalance |-> FALSE, hiddenOwner |-> FALSE,
     canTakeBackOwnership |-> FALSE, sellTax |-> NoTax]

HoneypotUpstreams ==
    [chainSupported : {TRUE}, goplus : HttpOutcomes \ {"ok"}, code : {1},
     listed : {TRUE}, flags : {NoFlags}, isMintable : {FALSE}, mediumFlags : {0}]
    \cup
    [chainSupported : {TRUE}, goplus : {"ok"}, code : {0, 1},
     listed : BOOLEAN, flags : {NoFlags}, isMintable : {FALSE}, mediumFlags : {0}]
    \cup
    [chainSupported : {TRUE}, goplus : {"ok"}, code : {1},
     listed : {TRUE}, flags : HoneypotFlags, isMintable : BOOLEAN,
     mediumFlags : 0..MaxFindings]

Count(b) == IF b THEN 1 ELSE 0

checkHoneypot(u) ==
    IF ~u.chainSupported THEN Threw
    ELSE IF fetchJSON(u.goplus) = "null" \/ u.code # 1 \/ ~u.listed
    THEN [threw |-> FALSE, success |-> FALSE, risk |-> "UNKNOWN"] @@ NoFlags
    ELSE LET f == u.flags
             critical == Count(f.isHoneypot) + Count(f.cannotBuy)
                         + Count(f.cannotSellAll)
                         + Count(f.sellTax # NoTax /\ f.sellTax > 50)
             high == Count(f.ownerCanChangeBalance) + Count(f.canTakeBackOwnership)
                     + Count(f.hiddenOwner) + Count(u.isMintable)
                     + Count(f.sellTax # NoTax /\ f.sellTax > 20 /\ f.sellTax <= 50)
             medium == u.mediumFlags
                       + Count(f.sellTax # NoTax /\ f.sellTax > 10 /\ f.sellTax <= 20)
         IN  [threw |-> FALSE, success |-> TRUE,
              risk |-> IF f.isHoneypot \/ critical > 0 THEN "CRITICAL"
                       ELSE IF high >= 2 THEN "HIGH"
                       ELSE IF high > 0 \/ medium >= 2 THEN "MEDIUM"
                       ELSE "LOW"] @@ f

\* ---- checkSocialSentiment
\* pairs: the response lists pairs; chainPairs: some are on this chain.
SentimentUpstreams ==
    [chainSupported : {TRUE}, dex : HttpOutcomes, pairs : BOOLEAN,
     chainPairs : BOOLEAN, sentimentScore : SentimentScores]

\* The success object has sentimentScore and sentimentLevel and no risk.
checkSocialSentiment(u) ==
    IF ~u.chainSupported THEN Threw
    ELSE IF fetchJSON(u.dex) = "null" \/ ~u.pairs \/ ~u.chainPairs
    THEN [threw |-> FALSE, success |-> FALSE, risk |-> "UNKNOWN", sentimentScore |-> 0]
    ELSE [threw |-> FALSE, success |-> TRUE, risk |-> "undefined",
          sentimentScore |-> u.sentimentScore]

\* Everything the outside world can answer to fetcher f.
Upstreams(f) ==
    {UnsupportedChain} \cup
    CASE f = "tokenInfo"    -> TokenInfoUpstreams
      [] f = "contractScan" -> ContractScanUpstreams
      [] f = "liquidity"    -> LiquidityUpstreams
      [] f = "holders"      -> HoldersUpstreams
      [] f = "honeypot"     -> HoneypotUpstreams
      [] f = "sentiment"    -> SentimentUpstreams

\* ---- the token address
\* The text handed in as token address, as far as the code inspects it:
\* whether it is empty, starts with "0x", how many characters follow and
\* whether those are all hex digits.
AddressDigits == 40
EmptyText == [prefix |-> "", digits |-> 0, hex |-> TRUE]
WellFormed == [prefix |-> "0x", digits |-> AddressDigits, hex |-> TRUE]
Addresses ==
    {EmptyText, WellFormed,
     [WellFormed EXCEPT !.prefix = ""],
     [WellFormed EXCEPT !.digits = AddressDigits - 1],
     [WellFormed EXCEPT !.hex = FALSE]}

\* /^0x[a-fA-F0-9]{40}$/.test(address)
isValidAddress(a) == a.prefix = "0x" /\ a.digits = AddressDigits /\ a.hex

\* ---- getNativeTokenPrice and its cache
\* priceCache maps chain.native.coingeckoId to { price, time }; an absent
\* entry is the empty set.  Each caller is one call of getNativeTokenPrice
\* for its key: "idle" before the call, "fetching" while it awaits
\* fetchJSON, "done" once it has returned ret.  how tells which return
\* statement was taken, calledAt is Date.now() at the cache test, wrote
\* the object the call handed to priceCache.set, lastWriter the caller
\* whose set was the latest for a key (0: none), asked the price services
\* the call has sent a request to.
MaxTicks == 3
NumCallers == 2

PRICE_CACHE_DURATION == 60000

Keys == {"ethereum", "binancecoin"}
Callers == 1..NumCallers
Clock == {k * 20000 : k \in 0..MaxTicks}

\* usd prices CoinGecko answers with; 0 stands for a body without a usd price
Prices == {3000, 3100}

\* fallbacks[chain.native.coingeckoId] || 1
Fallback(k) ==
    CASE k = "ethereum" -> 3500
      [] k = "binancecoin" -> 600
      [] OTHER -> 1

\* Fault variant: an entry of exactly 60000 ms still counts as fresh.
FreshInclusive(cached, t) ==
    \E e \in cached : t - e.time <= PRICE_CACHE_DURATION

\* cached && (Date.now() - cached.time) < PRICE_CACHE_DURATION
Fresh(cached, t) ==
    \E e \in cached : t - e.time < PRICE_CACHE_DURATION

PriceIdle ==
    /\ priceCache = [k \in Keys |-> {}]
    /\ now = 0
    /\ callerPc = [c \in Callers |-> "idle"]
    /\ key = [c \in Callers |-> "ethereum"]
    /\ ret = [c \in Callers |-> 0]
    /\ how = [c \in Callers |-> "none"]
    /\ calledAt = [c \in Callers |-> 0]
    /\ wrote = [c \in Callers |-> {}]
    /\ lastWriter = [k \in Keys |-> 0]
    /\ asked = [c \in Callers |-> {}]

\* ---- the bot's scan cache
\* scanCache is a Map from `${chatId}_${tokenAddress}` to the scan data,
\* modelled as the sequence of its entries in the order of Map.keys(),
\* which is the order in which the keys were first set.  An entry holds
\* the (chat, token) pair it is keyed by, data (which call of silentScan
\* returned it; 0: a scan before the presses followed here) and since (the
\* ordinal of the set that put the key into the Map).
ScanCacheLimit == 100

\* the button presses and pasted addresses followed
NumPresses == 2
Presses == 1..NumPresses

\* The pairs they name: the first and the last key of a full cache, and
\* one beyond it.
Pairs == {1, ScanCacheLimit, ScanCacheLimit + 1}

\* the cache after n scans of n different pairs
Prefilled(n) == [i \in 1..n |-> [pair |-> i, data |-> 0, since |-> i]]

\* scanCache.get(cacheKey): a set of at most one value
MapGet(cache, k) == {cache[i].data : i \in {j \in DOMAIN cache : cache[j].pair = k}}

\* Fault variant: set leaves the value of a key that is present.
MapSetKeepsPresent(cache, k, d) ==
    IF MapGet(cache, k) # {}
    THEN cache
    ELSE Append(cache, [pair |-> k, data |-> d,
                        since |-> IF cache = << >> THEN 1
                                  ELSE cache[Len(cache)].since + 1])

\* scanCache.set(cacheKey, scanData): a key that is present keeps its place
\* and gets the new value, a new key is added at the end.
MapSet(cache, k, d) ==
    IF MapGet(cache, k) # {}
    THEN [i \in DOMAIN cache |->
             IF cache[i].pair = k THEN [cache[i] EXCEPT !.data = d] ELSE cache[i]]
    ELSE Append(cache, [pair |-> k, data |-> d,
                        since |-> IF cache = << >> THEN 1
                                  ELSE cache[Len(cache)].since + 1])

\* Fault variant: the last key is deleted.
EvictLast(cache) ==
    IF Len(cache) > ScanCacheLimit THEN SubSeq(cache, 1, Len(cache) - 1) ELSE cache

\* if (scanCache.size > 100) scanCache.delete(scanCache.keys().next().value)
EvictFirst(cache) ==
    IF Len(cache) > ScanCacheLimit THEN Tail(cache) ELSE cache

\* A press: "idle" before it arrives, "scanning" while handleScan awaits
\* silentScan, "done" when its handler has finished.  outcome tells how it
\* ended, shown the scan data its answer was rendered from.
IdlePress == [pc |-> "idle", kind |-> "none", pair |-> 0, outcome |-> "none", shown |-> {}]

BotIdle ==
    /\ scanCache = << >>
    /\ presses = [p \in Presses |-> IdlePress]

\* ---- providers
\* Two entries of CHAINS, as far as getProvider and switchToBackupRpc read
\* them: eth (no rpcBackup) and monad (one backup).
Chains == {"eth", "monad"}

ChainRpc(c) ==
    CASE c = "eth"   -> "https://ethereum-rpc.publicnode.com"
      [] c = "monad" -> "https://monad-mainnet.drpc.org"

ChainRpcBackup(c) ==
    CASE c = "eth"   -> << >>
      [] c = "monad" -> <<"https://rpc2.monad.xyz">>

\* Chain keys as callers pass them: keys of CHAINS, aliases, another
\* spelling, and a chain that is not supported.
ChainKeys == {"eth", "ethereum", "monad", "mon", "MONAD", "solana"}

\* chainKey.toLowerCase() over ChainKeys
toLowerCase(k) == IF k = "MONAD" THEN "monad" ELSE k

\* getChain: the key of the CHAINS entry returned, "null" for null
getChain(k) ==
    IF toLowerCase(k) \in Chains THEN toLowerCase(k)
    ELSE IF toLowerCase(k) = "ethereum" THEN "eth"
    ELSE IF toLowerCase(k) = "mon" THEN "monad"
    ELSE "null"

\* `${chainKey}_provider`: the key of providerCache is built from the
\* chain key as passed, not from the chain getChain resolved it to.
ProviderCacheKey(k) == k

\* The first RPC of the list that is not in failedRpcs, or the primary one.
FirstNotFailed(rpcsToTry, failed, primary) ==
    IF \A i \in DOMAIN rpcsToTry : rpcsToTry[i] \in failed
    THEN primary
    ELSE rpcsToTry[CHOOSE i \in DOMAIN rpcsToTry :
                      /\ rpcsToTry[i] \notin failed
                      /\ \A j \in 1..(i - 1) : rpcsToTry[j] \in failed]

\* providerCache maps a cache key to the RPC its provider is bound to (a
\* set of at most one); lastCall is the latest call: the function, the
\* chain key it was given, and for getProvider the RPC of the provider it
\* returned (empty when it threw).
NoCall == [op |-> "none", chainKey |-> "eth", rpc |-> {}]

RpcIdle ==
    /\ providerCache = [k \in ChainKeys |-> {}]
    /\ failedRpcs = {}
    /\ lastCall = NoCall

\* ---- holder lists
\* A row of a holder list: its share of the supply in percent and whether
\* isBurnAddress(address) holds.  Lists are ordered by descending share
\* (order=DESC of the Moralis request).
MaxRows == 12
MaxBurnRows == 2
ShareValues == <<5, 2, 1>>

\* the list with a rows of the first share value, b of the second, c of
\* the third, the rows at the positions in burnt being burn addresses
HolderList(a, b, c, burnt) ==
    [i \in 1..(a + b + c) |->
        [share |-> IF i <= a THEN ShareValues[1]
                   ELSE IF i <= a + b THEN ShareValues[2] ELSE ShareValues[3],
         burn |-> i \in burnt]]

\* The loop of checkHolders over data.result (and, alike, over
\* tokenData.holders): burn addresses are skipped, counted holders are the
\* pushed ones.  acc.count is holders.length.
RECURSIVE checkHoldersLoop(_, _, _)
checkHoldersLoop(list, i, acc) ==
    IF i > Len(list) THEN acc
    ELSE IF list[i].burn
    THEN checkHoldersLoop(list, i + 1,
                          [acc EXCEPT !.burnedPercent = @ + list[i].share])
    ELSE checkHoldersLoop(list, i + 1,
            [burnedPercent |-> acc.burnedPercent,
             count |-> acc.count + 1,
             top1Percent |-> IF acc.count + 1 = 1 THEN list[i].share
                             ELSE acc.top1Percent,
             top10Percent |-> IF acc.count + 1 <= 10 THEN acc.top10Percent + list[i].share
                              ELSE acc.top10Percent])

checkHoldersShares(list) ==
    checkHoldersLoop(list, 1,
                     [burnedPercent |-> 0, count |-> 0, top1Percent |-> 0, top10Percent |-> 0])

\* The loop of analyzeHolders (standalone holder analysis): burn addresses
\* are skipped, top 1 and top 10 are tracked by the list index i, which
\* starts at 0 in the code and at 1 here.
RECURSIVE analyzeHoldersLoop(_, _, _)
analyzeHoldersLoop(list, i, analysis) ==
    IF i > Len(list) THEN analysis
    ELSE IF list[i].burn
    THEN analyzeHoldersLoop(list, i + 1,
                            [analysis EXCEPT !.burnedPercent = @ + list[i].share])
    ELSE analyzeHoldersLoop(list, i + 1,
            [burnedPercent |-> analysis.burnedPercent,
             top1Percent |-> IF i - 1 = 0 THEN list[i].share ELSE analysis.top1Percent,
             top10Percent |-> IF i - 1 < 10 THEN analysis.top10Percent + list[i].share
                              ELSE analysis.top10Percent])

analyzeHolders(list) ==
    analyzeHoldersLoop(list, 1, [burnedPercent |-> 0, top1Percent |-> 0, top10Percent |-> 0])

HoldersIdle ==
    /\ rows = << >>
    /\ analysed = {}

\* ------------------------------------------------------- state machine
\* pc: "idle"      - no scan is being followed
\*     "entry"     - a request has arrived at one of the entry points
\*     "rejected"  - it ended without a scan (usage text, ignored message)
\*     "reported"  - the bot answered from its scan cache
\*     "scanning"  - between two fetcher calls
\*     "awaiting"  - a fetcher has been called and not yet settled
\*     "collected" - all six fetchers awaited, score not yet computed
\*     "returned"  - silentScan / rugCheck returned riskScore and riskLevel
\*     "threw"     - getChainConfig or the scoring code raised
\* rescans counts the scans of the same token after the first one.

\* Fault variant: riskScore lives outside the function and is not reset.
ScoreOutcomeAccumulating(r) ==
    [pc |-> "returned",
     riskScore |-> ClampScore(riskScore + RawScore(r)),
     riskLevel |-> RiskLevelOf(ClampScore(riskScore + RawScore(r)))]

\* `let riskScore = 0` ... `riskLevel = ...` of one scan over the signal set r
ScoreOutcome(r) ==
    IF ScoreThrows(r)
    THEN [pc |-> "threw", riskScore |-> 0, riskLevel |-> "undefined"]
    ELSE [pc |-> "returned",
          riskScore |-> ClampScore(RawScore(r)),
          riskLevel |-> RiskLevelOf(ClampScore(RawScore(r)))]

\* The scoring step of the scan in progress.
Score ==
    /\ pc = "collected"
    /\ pc' = ScoreOutcome(results).pc
    /\ riskScore' = ScoreOutcome(results).riskScore
    /\ riskLevel' = ScoreOutcome(results).riskLevel
    /\ UNCHANGED <<results, rescans, fetchVars, scanVars, priceVars, botVars, rpcVars, holderVars>>

\* The fields of a successful result that the fetcher fills from upstream
\* data, and the values each takes.
DataFields(k) == DOMAIN CleanScan[k] \ {"isNull", "success"}

FieldValues(f) ==
    CASE f = "ownerStatus"    -> OwnerStatuses
      [] f = "contractAge"    -> ContractAges
      [] f \in {"critical", "high", "medium"} -> 0..MaxFindings
      [] f = "liquidityUSD"   -> LiquidityUSDs
      [] f = "safePercent"    -> SafePercents
      [] f = "top1Percent"    -> Top1Percents
      [] f = "top10Percent"   -> Top10Percents
      [] f = "sellTax"        -> SellTaxes
      [] f = "sentimentScore" -> SentimentScores
      [] OTHER                -> BOOLEAN

\* The same token is scanned again (silentScan is called anew) and one
\* fetcher reports one field differently; the new scan is scored from scratch.
Rescan ==
    /\ pc = "returned"
    /\ rescans < MaxRescans
    /\ \E k \in Slots : \E f \in DataFields(k) : \E x \in FieldValues(f) :
          /\ results[k].success
          /\ x # results[k][f]
          /\ [results[k] EXCEPT ![f] = x] \in SlotValues(k)
          /\ results' = [results EXCEPT ![k][f] = x]
    /\ rescans' = rescans + 1
    /\ pc' = ScoreOutcome(results').pc
    /\ riskScore' = ScoreOutcome(results').riskScore
    /\ riskLevel' = ScoreOutcome(results').riskLevel
    /\ UNCHANGED <<fetchVars, scanVars, priceVars, botVars, rpcVars, holderVars>>

\* The same token is scanned again and every fetcher reports what it
\* reported before; the scoring code runs anew on equal results.
Repeat ==
    /\ pc = "returned"
    /\ rescans < MaxRescans
    /\ results' = results
    /\ rescans' = rescans + 1
    /\ pc' = ScoreOutcome(results).pc
    /\ riskScore' = ScoreOutcome(results).riskScore
    /\ riskLevel' = ScoreOutcome(results).riskLevel
    /\ UNCHANGED <<fetchVars, scanVars, priceVars, botVars, rpcVars, holderVars>>

\* The state: the results object of the scan, its riskScore and riskLevel
\* (undefined until assigned), the position in the scan, the rescans so far.
TypeOK ==
    /\ \A k \in Slots : results[k] \in SlotValues(k)
    /\ riskScore \in 0..100
    /\ riskLevel \in {"undefined", "LOW", "MEDIUM", "HIGH", "CRITICAL"}
    /\ pc \in {"idle", "entry", "rejected", "reported", "scanning", "awaiting",
              "collected", "returned", "threw"}
    /\ rescans \in 0..MaxRescans

\* No single fetcher call is being followed.
FetchIdle ==
    /\ fetcher = "none"
    /\ upstream = UnsupportedChain
    /\ fetched = {}

\* No scan request is being followed.
ScanIdle ==
    /\ entry = "none"
    /\ address = EmptyText
    /\ chainKnown = TRUE
    /\ cacheHit = FALSE
    /\ step = 0
    /\ invoked = {}
    /\ liquidityArg = {}
    /\ mute = {}

\* Aggregation as a function of the collected signal set: every pair of
\* slots ranges jointly over everything the two fetchers can return (or
\* null), the other four slots being those of a reference scan.
Init ==
    /\ \E b \in ReferenceScans : \E i, j \in Slots :
          \E vi \in SlotValues(i), vj \in SlotValues(j) :
              results = [b EXCEPT ![i] = vi, ![j] = vj]
    /\ riskScore = 0
    /\ riskLevel = "undefined"
    /\ rescans = 0
    /\ pc = "collected"
    /\ FetchIdle
    /\ ScanIdle
    /\ PriceIdle
    /\ BotIdle
    /\ RpcIdle
    /\ HoldersIdle

Next == Score

Spec == Init /\ [][Next]_vars

\* Repeated scans of one token, starting from a reference scan.
InitRescan ==
    /\ results \in ReferenceScans
    /\ riskScore = 0
    /\ riskLevel = "undefined"
    /\ rescans = 0
    /\ pc = "collected"
    /\ FetchIdle
    /\ ScanIdle
    /\ PriceIdle
    /\ BotIdle
    /\ RpcIdle
    /\ HoldersIdle

NextRescan == Score \/ Rescan \/ Repeat

SpecRescan == InitRescan /\ [][NextRescan]_vars

\* ---- one fetcher call, over everything the outside world can answer
\* The aggregation variables are not involved.
ScoreIdle ==
    /\ results = [k \in Slots |->
                     CASE k = "tokenInfo"    -> TokenInfoNull
                       [] k = "contractScan" -> ContractScanNull
                       [] k = "liquidity"    -> LiquidityNull
                       [] k = "holders"      -> HoldersNull
                       [] k = "honeypot"     -> HoneypotNull
                       [] k = "sentiment"    -> SentimentNull]
    /\ riskScore = 0
    /\ riskLevel = "undefined"
    /\ rescans = 0
    /\ pc = "idle"

scoreVars == <<results, riskScore, riskLevel, pc, rescans>>

Settle(f, result) ==
    /\ fetcher = f
    /\ fetched = {}
    /\ fetched' = {result}
    /\ UNCHANGED <<fetcher, upstream, scoreVars, scanVars, priceVars, botVars, rpcVars, holderVars>>

CheckTokenInfo == Settle("tokenInfo", checkTokenInfo(upstream))
CheckContractFunctions == Settle("contractScan", checkContractFunctions(upstream))
CheckLiquidity == Settle("liquidity", checkLiquidity(upstream))
CheckHolders == Settle("holders", checkHolders(upstream))
CheckHoneypot == Settle("honeypot", checkHoneypot(upstream))
CheckSocialSentiment == Settle("sentiment", checkSocialSentiment(upstream))

InitFetch ==
    /\ ScoreIdle
    /\ ScanIdle
    /\ PriceIdle
    /\ BotIdle
    /\ RpcIdle
    /\ HoldersIdle
    /\ fetcher \in Fetchers
    /\ upstream \in Upstreams(fetcher)
    /\ fetched = {}

NextFetch ==
    \/ CheckTokenInfo
    \/ CheckContractFunctions
    \/ CheckLiquidity
    \/ CheckHolders
    \/ CheckHoneypot
    \/ CheckSocialSentiment

SpecFetch == InitFetch /\ [][NextFetch]_vars

\* ---- a scan request, from its entry point to the verdict
\* Entry points: the command line, a text message to the bot, and the
\* Full Report, Summary and Rescan buttons.
Entries == {"cli", "message", "full", "summary", "rescan"}

\* Fault variant: checkLiquidity is called first.
FetchOrderLiquidityFirst(e) ==
    <<"liquidity", "tokenInfo", "contractScan", "holders", "honeypot", "sentiment">>

\* The order in which the fetchers are awaited: rugCheck (command line)
\* and silentScan (bot).
FetchOrder(e) ==
    IF e = "cli"
    THEN <<"tokenInfo", "contractScan", "liquidity", "holders", "honeypot", "sentiment">>
    ELSE <<"tokenInfo", "contractScan", "holders", "honeypot", "sentiment", "liquidity">>

\* The network calls of each fetcher and how each is made: through
\* fetchJSON, through an ethers contract call, or through global fetch.
CallKinds(f) ==
    CASE f = "tokenInfo"    -> [erc20 |-> "rpc", owner |-> "rpc", txlist |-> "fetchJSON"]
      [] f = "contractScan" -> [getabi |-> "fetchJSON"]
      [] f = "liquidity"    -> [dex |-> "fetchJSON", pair |-> "rpc", lpSupply |-> "rpc"]
      [] f = "holders"      -> [moralis |-> "fetch", goplus |-> "fetchJSON"]
      [] f = "honeypot"     -> [goplus |-> "fetchJSON"]
      [] f = "sentiment"    -> [dex |-> "fetchJSON"]

\* request.setTimeout(15000, ...) is the only deadline the code arms; the
\* ethers calls and the Moralis fetch are awaited without one.
FetchJSONTimeoutMs == 15000
Deadline(kind) == IF kind = "fetchJSON" THEN {FetchJSONTimeoutMs} ELSE {}

\* What the fetcher hears when the services in silent never answer: a
\* fetchJSON call is abandoned at its deadline and resolves null.
Heard(f, u, silent) ==
    [c \in DOMAIN u |->
        IF c \in silent /\ Deadline(CallKinds(f)[c]) # {} THEN "timeout" ELSE u[c]]

\* The calls fetcher f actually issues when it hears u.
Issued(f, u) ==
    CASE f = "tokenInfo" ->
            {"erc20"} \cup (IF u.erc20 = "ok" THEN {"owner"} ELSE {})
                      \cup (IF u.erc20 = "ok" /\ u.apiKey THEN {"txlist"} ELSE {})
      [] f = "contractScan" -> IF u.apiKey THEN {"getabi"} ELSE {}
      [] f = "liquidity" ->
            {"dex", "pair"}
            \cup (IF u.pair = "ok" /\ u.poolLiquidity > 0 THEN {"lpSupply"} ELSE {})
      [] f = "holders" ->
            {"moralis"}
            \cup (IF u.moralis = "ok" /\ u.moralisRows THEN {} ELSE {"goplus"})
      [] f = "honeypot" -> {"goplus"}
      [] f = "sentiment" -> {"dex"}

\* The fetcher waits on a call that is never answered and has no deadline.
Blocked(f, u, silent) ==
    \E c \in Issued(f, Heard(f, u, silent)) \cap silent :
        Deadline(CallKinds(f)[c]) = {}

FetcherResult(f, u) ==
    CASE f = "tokenInfo"    -> checkTokenInfo(u)
      [] f = "contractScan" -> checkContractFunctions(u)
      [] f = "liquidity"    -> checkLiquidity(u)
      [] f = "holders"      -> checkHolders(u)
      [] f = "honeypot"     -> checkHoneypot(u)
      [] f = "sentiment"    -> checkSocialSentiment(u)

\* The returned object as the slot of the results object.
AsSlot(k, r) ==
    IF r.success
    THEN [x \in DOMAIN CleanScan[k] |-> IF x = "isNull" THEN FALSE ELSE r[x]]
    ELSE FailedScan[k]

\* The answers followed through a whole scan: per fetcher a clean token,
\* an adverse token, and a failure.
ScanUpstreams(f) ==
    CASE f = "tokenInfo" ->
            {[chainSupported |-> TRUE, erc20 |-> "ok", owner |-> "ok",
              ownerAddress |-> ZeroAddress, apiKey |-> TRUE, txlist |-> "ok", age |-> 400],
             [chainSupported |-> TRUE, erc20 |-> "ok", owner |-> "ok",
              ownerAddress |-> "0x95ad61b0a150d79219dcf64e1e6cc01f0b64c4ce",
              apiKey |-> TRUE, txlist |-> "ok", age |-> 3],
             [chainSupported |-> TRUE, erc20 |-> "reverted", owner |-> "ok",
              ownerAddress |-> ZeroAddress, apiKey |-> TRUE, txlist |-> "ok", age |-> 3]}
      [] f = "contractScan" ->
            {[chainSupported |-> TRUE, apiKey |-> TRUE, getabi |-> "ok", status |-> "1",
              abiParses |-> TRUE, findings |-> NoFindings],
             [chainSupported |-> TRUE, apiKey |-> TRUE, getabi |-> "ok", status |-> "1",
              abiParses |-> TRUE, findings |-> [critical |-> 1, high |-> 0, medium |-> 0]],
             [chainSupported |-> TRUE, apiKey |-> TRUE, getabi |-> "ok", status |-> "0",
              abiParses |-> TRUE, findings |-> NoFindings]}
      [] f = "liquidity" ->
            {[chainSupported |-> TRUE, dex |-> "ok", dexPair |-> TRUE,
              dexLiquidity |-> 200000, pair |-> "ok", poolLiquidity |-> 200000,
              lpSupply |-> "ok", safePercent |-> 95],
             [chainSupported |-> TRUE, dex |-> "ok", dexPair |-> FALSE,
              dexLiquidity |-> 500, pair |-> "ok", poolLiquidity |-> 500,
              lpSupply |-> "ok", safePercent |-> 10],
             [chainSupported |-> TRUE, dex |-> "ok", dexPair |-> FALSE,
              dexLiquidity |-> 500, pair |-> "none", poolLiquidity |-> 0,
              lpSupply |-> "ok", safePercent |-> 10]}
      [] f = "holders" ->
            {[chainSupported |-> TRUE, moralis |-> "ok", moralisRows |-> TRUE,
              goplus |-> "ok", goplusRows |-> TRUE,
              shares |-> [top1Percent |-> 5, top10Percent |-> 20]],
             [chainSupported |-> TRUE, moralis |-> "error", moralisRows |-> FALSE,
              goplus |-> "ok", goplusRows |-> TRUE,
              shares |-> [top1Percent |-> 40, top10Percent |-> 80]],
             [chainSupported |-> TRUE, moralis |-> "ok", moralisRows |-> FALSE,
              goplus |-> "ok", goplusRows |-> FALSE, shares |-> NoShares]}
      [] f = "honeypot" ->
            {[chainSupported |-> TRUE, goplus |-> "ok", code |-> 1, listed |-> TRUE,
              flags |-> [NoFlags EXCEPT !.sellTax = 2],
              isMintable |-> FALSE, mediumFlags |-> 0],
             [chainSupported |-> TRUE, goplus |-> "ok", code |-> 1, listed |-> TRUE,
              flags |-> [NoFlags EXCEPT !.isHoneypot = TRUE, !.sellTax = 60],
              isMintable |-> FALSE, mediumFlags |-> 0],
             [chainSupported |-> TRUE, goplus |-> "ok", code |-> 0, listed |-> TRUE,
              flags |-> NoFlags, isMintable |-> FALSE, mediumFlags |-> 0]}
      [] f = "sentiment" ->
            {[chainSupported |-> TRUE, dex |-> "ok", pairs |-> TRUE,
              chainPairs |-> TRUE, sentimentScore |-> 50],
             [chainSupported |-> TRUE, dex |-> "ok", pairs |-> FALSE,
              chainPairs |-> FALSE, sentimentScore |-> 0]}

NullResults ==
    [tokenInfo    |-> TokenInfoNull,
     contractScan |-> ContractScanNull,
     liquidity    |-> LiquidityNull,
     holders      |-> HoldersNull,
     honeypot     |-> HoneypotNull,
     sentiment    |-> SentimentNull]

\* handleScan -> silentScan(tokenAddress), and rugCheck after
\* getChainConfig: the first fetcher is about to be called.
StartScan ==
    /\ pc' = "scanning"
    /\ UNCHANGED <<results, riskScore, riskLevel, rescans, fetchVars,
                   entry, address, chainKnown, cacheHit, step, invoked,
                   liquidityArg, mute, priceVars, botVars, rpcVars, holderVars>>

\* The request ends without a scan (usage text, ignored message, report
\* from the cache) or with the exception of getChainConfig.
EndRequest(outcome) ==
    /\ pc' = outcome
    /\ UNCHANGED <<results, riskScore, riskLevel, rescans, fetchVars,
                   entry, address, chainKnown, cacheHit, step, invoked,
                   liquidityArg, mute, priceVars, botVars, rpcVars, holderVars>>

\* node rug-checker.js <TOKEN_ADDRESS> [CHAIN]
OnCli ==
    /\ pc = "entry"
    /\ entry = "cli"
    /\ IF address = EmptyText THEN EndRequest("rejected")
       ELSE IF ~chainKnown THEN EndRequest("threw")
       ELSE StartScan

\* bot.on('message')
OnMessage ==
    /\ pc = "entry"
    /\ entry = "message"
    /\ IF isValidAddress(address) THEN StartScan ELSE EndRequest("rejected")

\* callback_query full_<address>
OnFullReport ==
    /\ pc = "entry"
    /\ entry = "full"
    /\ IF cacheHit THEN EndRequest("reported") ELSE StartScan

\* callback_query summary_<address>
OnSummary ==
    /\ pc = "entry"
    /\ entry = "summary"
    /\ IF cacheHit THEN EndRequest("reported") ELSE StartScan

\* callback_query scan_<address>
OnRescan ==
    /\ pc = "entry"
    /\ entry = "rescan"
    /\ StartScan

\* The next fetcher of the order is called; the outside world fixes its
\* answers and which of its services stay silent.  checkLiquidity is
\* handed results.tokenInfo.
Invoke ==
    /\ pc = "scanning"
    /\ step < Len(FetchOrder(entry))
    /\ LET f == FetchOrder(entry)[step + 1] IN
        /\ fetcher' = f
        /\ upstream' \in ScanUpstreams(f)
        /\ mute' \in SUBSET DOMAIN CallKinds(f)
        /\ fetched' = {}
        /\ invoked' = invoked \cup {f}
        /\ liquidityArg' = IF f = "liquidity" THEN {results.tokenInfo} ELSE liquidityArg
    /\ pc' = "awaiting"
    /\ UNCHANGED <<results, riskScore, riskLevel, rescans, priceVars, botVars, rpcVars, holderVars,
                   entry, address, chainKnown, cacheHit, step>>

\* Fault variant: a failure result ends the collection at once.
ResolveAbortOnFailure ==
    /\ pc = "awaiting"
    /\ ~Blocked(fetcher, upstream, mute)
    /\ LET r == FetcherResult(fetcher, Heard(fetcher, upstream, mute)) IN
        /\ fetched' = {r}
        /\ results' = [results EXCEPT ![fetcher] = AsSlot(fetcher, r)]
        /\ pc' = IF ~r.success \/ step + 1 = Len(FetchOrder(entry))
                 THEN "collected" ELSE "scanning"
    /\ step' = step + 1
    /\ UNCHANGED <<riskScore, riskLevel, rescans, fetcher, upstream, mute, priceVars, botVars, rpcVars, holderVars,
                   entry, address, chainKnown, cacheHit, invoked, liquidityArg>>

\* The awaited fetcher settles and its result is stored under its key;
\* after the last one the scoring code is reached.
Resolve ==
    /\ pc = "awaiting"
    /\ ~Blocked(fetcher, upstream, mute)
    /\ LET r == FetcherResult(fetcher, Heard(fetcher, upstream, mute)) IN
        /\ fetched' = {r}
        /\ results' = [results EXCEPT ![fetcher] = AsSlot(fetcher, r)]
    /\ step' = step + 1
    /\ pc' = IF step + 1 = Len(FetchOrder(entry)) THEN "collected" ELSE "scanning"
    /\ UNCHANGED <<riskScore, riskLevel, rescans, fetcher, upstream, mute, priceVars, botVars, rpcVars, holderVars,
                   entry, address, chainKnown, cacheHit, invoked, liquidityArg>>

\* A request arrives.  The bot always scans on DEFAULT_CHAIN; the cache is
\* consulted by the Full Report and Summary buttons only.
InitScan ==
    /\ results = NullResults
    /\ riskScore = 0
    /\ riskLevel = "undefined"
    /\ rescans = 0
    /\ pc = "entry"
    /\ FetchIdle
    /\ entry \in Entries
    /\ address \in Addresses
    /\ chainKnown \in IF entry = "cli" THEN BOOLEAN ELSE {TRUE}
    /\ cacheHit \in IF entry \in {"full", "summary"} THEN BOOLEAN ELSE {FALSE}
    /\ step = 0
    /\ invoked = {}
    /\ liquidityArg = {}
    /\ mute = {}
    /\ PriceIdle
    /\ BotIdle
    /\ RpcIdle
    /\ HoldersIdle

NextScan ==
    \/ OnCli
    \/ OnMessage
    \/ OnFullReport
    \/ OnSummary
    \/ OnRescan
    \/ Invoke
    \/ Resolve
    \/ Score

SpecScan == InitScan /\ [][NextScan]_vars

\* Time passes.
Tick ==
    /\ now' \in {t \in Clock : t > now}
    /\ UNCHANGED <<priceCache, callerPc, key, ret, how, calledAt, wrote, lastWriter,
                   asked, scoreVars, fetchVars, scanVars,
                   botVars, rpcVars, holderVars>>

\* getNativeTokenPrice up to its first await: a fresh entry is returned,
\* otherwise the CoinGecko request is sent.
CallPrice(c) ==
    /\ callerPc[c] = "idle"
    /\ calledAt' = [calledAt EXCEPT ![c] = now]
    /\ IF Fresh(priceCache[key[c]], now)
       THEN /\ callerPc' = [callerPc EXCEPT ![c] = "done"]
            /\ how' = [how EXCEPT ![c] = "cached"]
            /\ ret' = [ret EXCEPT ![c] = (CHOOSE e \in priceCache[key[c]] : TRUE).price]
            /\ UNCHANGED asked
       ELSE /\ callerPc' = [callerPc EXCEPT ![c] = "fetching"]
            /\ asked' = [asked EXCEPT ![c] = {"CoinGecko"}]
            /\ UNCHANGED <<how, ret>>
    /\ UNCHANGED <<priceCache, now, key, wrote, lastWriter,
                   scoreVars, fetchVars, scanVars,
                   botVars, rpcVars, holderVars>>

\* Fault variant: the new price is stored under the time of the entry
\* already present.
ReceivePriceKeepsTime(c) ==
    /\ callerPc[c] = "fetching"
    /\ \E usd \in Prices :
          /\ priceCache' = [priceCache EXCEPT
                               ![key[c]] = IF priceCache[key[c]] = {}
                                           THEN {[price |-> usd, time |-> now]}
                                           ELSE {[price |-> usd, time |-> e.time] :
                                                    e \in priceCache[key[c]]}]
          /\ wrote' = [wrote EXCEPT ![c] = {[price |-> usd, time |-> now]}]
          /\ lastWriter' = [lastWriter EXCEPT ![key[c]] = c]
          /\ ret' = [ret EXCEPT ![c] = usd]
          /\ how' = [how EXCEPT ![c] = "fetched"]
    /\ callerPc' = [callerPc EXCEPT ![c] = "done"]
    /\ UNCHANGED <<now, key, calledAt, asked, scoreVars, fetchVars, scanVars,
                   botVars, rpcVars, holderVars>>

\* The await resumes.  With a usd price in the body the entry is set to
\* { price, time: Date.now() } and the price returned; with null or no
\* price the try block ends and the fallback is returned, the cache left
\* alone.  The catch block (the DexScreener request for the wrapped token,
\* written here as one step with its await) runs when the awaited
\* fetchJSON rejects.
ReceivePrice(c) ==
    /\ callerPc[c] = "fetching"
    /\ \E http \in HttpOutcomes, usd \in {0} \cup Prices,
          dexHttp \in HttpOutcomes, priceUsd \in {0} \cup Prices :
          IF fetchJSON(http) = "rejected"
          THEN /\ asked' = [asked EXCEPT ![c] = @ \cup {"DexScreener"}]
               /\ IF fetchJSON(dexHttp) = "data" /\ priceUsd # 0
                  THEN /\ priceCache' = [priceCache EXCEPT
                                            ![key[c]] = {[price |-> priceUsd, time |-> now]}]
                       /\ wrote' = [wrote EXCEPT ![c] = {[price |-> priceUsd, time |-> now]}]
                       /\ lastWriter' = [lastWriter EXCEPT ![key[c]] = c]
                       /\ ret' = [ret EXCEPT ![c] = priceUsd]
                       /\ how' = [how EXCEPT ![c] = "fetched"]
                  ELSE /\ ret' = [ret EXCEPT ![c] = Fallback(key[c])]
                       /\ how' = [how EXCEPT ![c] = "fallback"]
                       /\ UNCHANGED <<priceCache, wrote, lastWriter>>
          ELSE IF fetchJSON(http) = "data" /\ usd # 0
          THEN /\ priceCache' = [priceCache EXCEPT
                                    ![key[c]] = {[price |-> usd, time |-> now]}]
               /\ wrote' = [wrote EXCEPT ![c] = {[price |-> usd, time |-> now]}]
               /\ lastWriter' = [lastWriter EXCEPT ![key[c]] = c]
               /\ ret' = [ret EXCEPT ![c] = usd]
               /\ how' = [how EXCEPT ![c] = "fetched"]
               /\ UNCHANGED asked
          ELSE /\ ret' = [ret EXCEPT ![c] = Fallback(key[c])]
               /\ how' = [how EXCEPT ![c] = "fallback"]
               /\ UNCHANGED <<priceCache, wrote, lastWriter, asked>>
    /\ callerPc' = [callerPc EXCEPT ![c] = "done"]
    /\ UNCHANGED <<now, key, calledAt, scoreVars, fetchVars, scanVars,
                   botVars, rpcVars, holderVars>>

\* The module is loaded: the cache is empty; each caller asks for the
\* native currency of some chain.
InitPrice ==
    /\ ScoreIdle
    /\ FetchIdle
    /\ ScanIdle
    /\ BotIdle
    /\ RpcIdle
    /\ HoldersIdle
    /\ priceCache = [k \in Keys |-> {}]
    /\ now = 0
    /\ callerPc = [c \in Callers |-> "idle"]
    /\ key \in [Callers -> Keys]
    /\ ret = [c \in Callers |-> 0]
    /\ how = [c \in Callers |-> "none"]
    /\ calledAt = [c \in Callers |-> 0]
    /\ wrote = [c \in Callers |-> {}]
    /\ lastWriter = [k \in Keys |-> 0]
    /\ asked = [c \in Callers |-> {}]

NextPrice ==
    \/ Tick
    \/ \E c \in Callers : CallPrice(c)
    \/ \E c \in Callers : ReceivePrice(c)

SpecPrice == InitPrice /\ [][NextPrice]_vars

\* ---- the bot: pasted addresses and button presses over the scan cache
\* The handlers overlap at their awaits; press p + 1 arrives after press p.
Arrives(p) ==
    /\ presses[p].pc = "idle"
    /\ IF p = 1 THEN TRUE ELSE presses[p - 1].pc # "idle"

\* handleScan up to `await silentScan(tokenAddress)`
HandleScan(p, kind, pair) ==
    /\ presses' = [presses EXCEPT ![p] = [pc |-> "scanning", kind |-> kind, pair |-> pair,
                                          outcome |-> "none", shown |-> {}]]
    /\ UNCHANGED scanCache

\* the report or summary formatted from scanCache.get(cacheKey)
RenderCached(p, kind, pair) ==
    /\ presses' = [presses EXCEPT ![p] = [pc |-> "done", kind |-> kind, pair |-> pair,
                                          outcome |-> "rendered",
                                          shown |-> MapGet(scanCache, pair)]]
    /\ UNCHANGED scanCache

\* bot.on('message') with a valid address
PasteAddress(p) ==
    /\ Arrives(p)
    /\ \E pair \in Pairs : HandleScan(p, "message", pair)
    /\ UNCHANGED <<scoreVars, fetchVars, scanVars, priceVars, rpcVars, holderVars>>

\* callback_query full_<address>
PressFullReport(p) ==
    /\ Arrives(p)
    /\ \E pair \in Pairs :
          IF MapGet(scanCache, pair) = {}
          THEN HandleScan(p, "full", pair)
          ELSE RenderCached(p, "full", pair)
    /\ UNCHANGED <<scoreVars, fetchVars, scanVars, priceVars, rpcVars, holderVars>>

\* callback_query summary_<address>
PressSummary(p) ==
    /\ Arrives(p)
    /\ \E pair \in Pairs :
          IF MapGet(scanCache, pair) = {}
          THEN HandleScan(p, "summary", pair)
          ELSE RenderCached(p, "summary", pair)
    /\ UNCHANGED <<scoreVars, fetchVars, scanVars, priceVars, rpcVars, holderVars>>

\* callback_query scan_<address>
PressRescan(p) ==
    /\ Arrives(p)
    /\ \E pair \in Pairs : HandleScan(p, "rescan", pair)
    /\ UNCHANGED <<scoreVars, fetchVars, scanVars, priceVars, rpcVars, holderVars>>

\* silentScan resolves: the data is stored under the pair's key, the first
\* key is deleted if the Map has grown beyond the limit, and the summary
\* is formatted from the data.
ScanReturns(p) ==
    /\ presses[p].pc = "scanning"
    /\ scanCache' = EvictFirst(MapSet(scanCache, presses[p].pair, p))
    /\ presses' = [presses EXCEPT ![p].pc = "done", ![p].outcome = "scanned",
                                  ![p].shown = {p}]
    /\ UNCHANGED <<scoreVars, fetchVars, scanVars, priceVars, rpcVars, holderVars>>

\* silentScan rejects: the catch block of handleScan reports the error.
ScanRejects(p) ==
    /\ presses[p].pc = "scanning"
    /\ presses' = [presses EXCEPT ![p].pc = "done", ![p].outcome = "failed"]
    /\ UNCHANGED <<scanCache, scoreVars, fetchVars, scanVars, priceVars, rpcVars, holderVars>>

\* The bot has scanned no pair yet, or all but one of the pairs the cache
\* has room for, or as many as it has room for.
InitBot ==
    /\ ScoreIdle
    /\ FetchIdle
    /\ ScanIdle
    /\ PriceIdle
    /\ RpcIdle
    /\ HoldersIdle
    /\ scanCache \in {Prefilled(n) : n \in {0, ScanCacheLimit - 1, ScanCacheLimit}}
    /\ presses = [p \in Presses |-> IdlePress]

NextBot ==
    \/ \E p \in Presses : PasteAddress(p)
    \/ \E p \in Presses : PressFullReport(p)
    \/ \E p \in Presses : PressSummary(p)
    \/ \E p \in Presses : PressRescan(p)
    \/ \E p \in Presses : ScanReturns(p)
    \/ \E p \in Presses : ScanRejects(p)

SpecBot == InitBot /\ [][NextBot]_vars

\* ---- providers: getProvider and switchToBackupRpc in any order
\* getProvider(chainKey)
GetProvider(k) ==
    /\ IF getChain(k) = "null"
       THEN /\ lastCall' = [op |-> "getProvider", chainKey |-> k, rpc |-> {}]
            /\ UNCHANGED <<providerCache, failedRpcs>>
       ELSE LET chain == getChain(k)
                cacheKey == ProviderCacheKey(k)
                rpcsToTry == <<ChainRpc(chain)>> \o ChainRpcBackup(chain)
                rpcUrl == FirstNotFailed(rpcsToTry, failedRpcs, ChainRpc(chain))
            IN  /\ providerCache' =
                       IF providerCache[cacheKey] = {}
                       THEN [providerCache EXCEPT ![cacheKey] = {rpcUrl}]
                       ELSE providerCache
                /\ lastCall' = [op |-> "getProvider", chainKey |-> k,
                                rpc |-> providerCache'[cacheKey]]
                /\ UNCHANGED failedRpcs
    /\ UNCHANGED <<scoreVars, fetchVars, scanVars, priceVars, botVars, holderVars>>

\* switchToBackupRpc(chainKey)
SwitchToBackupRpc(k) ==
    /\ IF getChain(k) = "null"
       THEN UNCHANGED <<providerCache, failedRpcs>>
       ELSE LET chain == getChain(k)
                cacheKey == ProviderCacheKey(k)
                failed == failedRpcs \cup {ChainRpc(chain)}
                backups == ChainRpcBackup(chain)
            IN  /\ failedRpcs' = failed
                /\ providerCache' =
                       IF \E i \in DOMAIN backups : backups[i] \notin failed
                       THEN [providerCache EXCEPT
                                ![cacheKey] = {FirstNotFailed(backups, failed, ChainRpc(chain))}]
                       ELSE providerCache
    /\ lastCall' = [op |-> "switchToBackupRpc", chainKey |-> k, rpc |-> {}]
    /\ UNCHANGED <<scoreVars, fetchVars, scanVars, priceVars, botVars, holderVars>>

\* The module is loaded: both caches are empty.
InitRpc ==
    /\ ScoreIdle
    /\ FetchIdle
    /\ ScanIdle
    /\ PriceIdle
    /\ BotIdle
    /\ HoldersIdle
    /\ providerCache = [k \in ChainKeys |-> {}]
    /\ failedRpcs = {}
    /\ lastCall = NoCall

NextRpc ==
    \/ \E k \in ChainKeys : GetProvider(k)
    \/ \E k \in ChainKeys : SwitchToBackupRpc(k)

SpecRpc == InitRpc /\ [][NextRpc]_vars

\* ---- the two holder analysers over one holder list
Analyse ==
    /\ analysed = {}
    /\ analysed' = {[unified |-> checkHoldersShares(rows),
                     standalone |-> analyzeHolders(rows)]}
    /\ UNCHANGED <<rows, scoreVars, fetchVars, scanVars, priceVars, botVars, rpcVars>>

\* Every list of at most MaxRows rows ordered by descending share, with at
\* most MaxBurnRows burn addresses anywhere in it.
InitHolders ==
    /\ ScoreIdle
    /\ FetchIdle
    /\ ScanIdle
    /\ PriceIdle
    /\ BotIdle
    /\ RpcIdle
    /\ \E a, b, c \in 0..MaxRows :
          /\ a + b + c <= MaxRows
          /\ \E burnt \in SUBSET (1..(a + b + c)) :
                /\ Cardinality(burnt) <= MaxBurnRows
                /\ rows = HolderList(a, b, c, burnt)
    /\ analysed = {}

NextHolders == Analyse

SpecHolders == InitHolders /\ [][NextHolders]_vars

\* ====================================================================
\* Properties
\* ====================================================================

\* a fetcher result with success = false (a null slot is no result)
Failed(slot) == ~slot.isNull /\ ~slot.success

HoneypotDetected == results.honeypot.success /\ results.honeypot.isHoneypot

Verdicts == {"LOW", "MEDIUM", "HIGH", "CRITICAL"}

\* C1: whatever the six signal results are, the score the scan returns is an
\* integer between 0 and 100.
C1_ScoreInRange == pc = "returned" => riskScore \in 0..100

\* the summed penalties exceed 100 and the returned score is 100
C1_Witness == pc = "returned" /\ RawScore(results) > 100 /\ riskScore = 100

\* C2: when the honeypot signal succeeded with isHoneypot = true the verdict
\* is HIGH or CRITICAL, never LOW or MEDIUM, whatever the other signals are.
C2_HoneypotDominance ==
    (pc = "returned" /\ HoneypotDetected) => riskLevel \in {"HIGH", "CRITICAL"}

\* a honeypot among otherwise clean signals is scored 50, HIGH
C2_Witness ==
    /\ pc = "returned"
    /\ results = [CleanScan EXCEPT !.honeypot.isHoneypot = TRUE]
    /\ riskScore = 50
    /\ riskLevel = "HIGH"

\* C3: a honeypot is always reported CRITICAL, also when every other signal
\* is clean.
C3_HoneypotAlwaysCritical ==
    (pc = "returned" /\ HoneypotDetected) => riskLevel = "CRITICAL"

\* C4: a honeypot together with at least one other non-zero contribution
\* (the honeypot flag itself adds exactly 50) is reported CRITICAL.
C4_HoneypotPlusAdverseCritical ==
    (pc = "returned" /\ HoneypotDetected /\ RawScore(results) > 50)
        => riskLevel = "CRITICAL"

\* C5: when all six signals have success = false the score is above 0.
C5_AllFailedPositive ==
    (pc = "returned" /\ \A k \in Slots : Failed(results[k])) => riskScore > 0

\* every fetcher failed and the scan returned 15 + 20 = 35
C5_Witness == pc = "returned" /\ results = FailedScan /\ riskScore = 35

\* The five signals the scoring code reads.
ScoredSlots == Slots \ {"sentiment"}

\* the points the scoring code adds for one signal
SlotPoints(k, r) ==
    CASE k = "tokenInfo"    -> TokenInfoPoints(r)
      [] k = "contractScan" -> ContractScanPoints(r)
      [] k = "liquidity"    -> LiquidityPoints(r)
      [] k = "holders"      -> HoldersPoints(r)
      [] k = "honeypot"     -> HoneypotPoints(r)

\* C6 (as claimed): each of token info, contract functions, liquidity,
\* holders and honeypot adds a strictly positive constant to the score when
\* its result has success = false.
C6_EveryFailedSignalPenalised ==
    pc = "returned" =>
        \A k \in ScoredSlots : Failed(results[k]) => SlotPoints(k, results) > 0

\* C6 (amended): a failed contract-function scan adds 15 and a failed
\* liquidity probe adds 20; a failed token-info, holders or honeypot result
\* adds nothing; the returned score is the sum of the five, capped at 100.
C6_FailedSignalPenalties ==
    pc = "returned" =>
        /\ Failed(results.contractScan) => ContractScanPoints(results) = 15
        /\ Failed(results.liquidity) => LiquidityPoints(results) = 20
        /\ Failed(results.tokenInfo) => TokenInfoPoints(results) = 0
        /\ Failed(results.holders) => HoldersPoints(results) = 0
        /\ Failed(results.honeypot) => HoneypotPoints(results) = 0
        /\ riskScore = Min(100, TokenInfoPoints(results) + ContractScanPoints(results)
                                + LiquidityPoints(results) + HoldersPoints(results)
                                + HoneypotPoints(results))

\* the holders fetcher failed, everything else is clean, and the score is 0
C6_Witness ==
    /\ pc = "returned"
    /\ results = [CleanScan EXCEPT !.holders = HoldersFailed]
    /\ riskScore = 0

\* C7: the verdict follows the score by inclusive lower cut points:
\* >= 75 CRITICAL, 50..74 HIGH, 25..49 MEDIUM, 0..24 LOW.
C7_VerdictCutPoints ==
    pc = "returned" =>
        /\ riskScore >= 75 => riskLevel = "CRITICAL"
        /\ (riskScore >= 50 /\ riskScore <= 74) => riskLevel = "HIGH"
        /\ (riskScore >= 25 /\ riskScore <= 49) => riskLevel = "MEDIUM"
        /\ (riskScore >= 0 /\ riskScore <= 24) => riskLevel = "LOW"
        /\ riskScore = 75 => riskLevel = "CRITICAL"
        /\ riskScore = 74 => riskLevel = "HIGH"
        /\ riskScore = 50 => riskLevel = "HIGH"
        /\ riskScore = 49 => riskLevel = "MEDIUM"
        /\ riskScore = 25 => riskLevel = "MEDIUM"
        /\ riskScore = 24 => riskLevel = "LOW"

\* a scan scored exactly 74 is HIGH
C7_Witness == pc = "returned" /\ riskScore = 74 /\ riskLevel = "HIGH"

\* b reports the findings of a, or more adverse ones, field by field.
\* Only successful results carry findings; the success flags do not change.
AtLeastAsAdverse(a, b) ==
    /\ \A k \in Slots : a[k].isNull = b[k].isNull /\ a[k].success = b[k].success
    /\ a.tokenInfo.success =>
          /\ \/ b.tokenInfo.ownerStatus = a.tokenInfo.ownerStatus
             \/ (a.tokenInfo.ownerStatus = "renounced" /\ b.tokenInfo.ownerStatus = "active")
          /\ \/ b.tokenInfo.contractAge = a.tokenInfo.contractAge
             \/ /\ a.tokenInfo.contractAge # NoAge
                /\ b.tokenInfo.contractAge # NoAge
                /\ b.tokenInfo.contractAge < a.tokenInfo.contractAge
    /\ a.contractScan.success =>
          /\ b.contractScan.critical >= a.contractScan.critical
          /\ b.contractScan.high >= a.contractScan.high
          /\ b.contractScan.medium >= a.contractScan.medium
    /\ a.liquidity.success =>
          /\ b.liquidity.liquidityUSD <= a.liquidity.liquidityUSD
          /\ b.liquidity.safePercent <= a.liquidity.safePercent
    /\ a.holders.success =>
          /\ b.holders.top1Percent >= a.holders.top1Percent
          /\ b.holders.top10Percent >= a.holders.top10Percent
    /\ a.honeypot.success =>
          /\ a.honeypot.isHoneypot => b.honeypot.isHoneypot
          /\ a.honeypot.cannotBuy => b.honeypot.cannotBuy
          /\ a.honeypot.cannotSellAll => b.honeypot.cannotSellAll
          /\ a.honeypot.ownerCanChangeBalance => b.honeypot.ownerCanChangeBalance
          /\ a.honeypot.hiddenOwner => b.honeypot.hiddenOwner
          /\ a.honeypot.canTakeBackOwnership => b.honeypot.canTakeBackOwnership
          /\ \/ b.honeypot.sellTax = a.honeypot.sellTax
             \/ /\ a.honeypot.sellTax # NoTax
                /\ b.honeypot.sellTax > a.honeypot.sellTax
    /\ b.sentiment = a.sentiment

\* C8: when a scan differs from the previous one only by more adverse
\* findings and nothing improved, its score is not lower.
C8_Monotone ==
    [][(pc = "returned" /\ pc' = "returned" /\ AtLeastAsAdverse(results, results'))
          => riskScore' >= riskScore]_vars

\* two rescans of the clean token found first an active owner, then a
\* contract three days old: the score went 0, 15, 25
C8_Witness ==
    /\ pc = "returned"
    /\ rescans = 2
    /\ results = [CleanScan EXCEPT !.tokenInfo.ownerStatus = "active",
                                   !.tokenInfo.contractAge = 3]
    /\ riskScore = 25

\* The scoring table, signal by signal.
TableOwnership(t) == IF t.ownerStatus = "active" THEN 15 ELSE 0
TableAge(t) ==
    IF t.contractAge = NoAge THEN 0
    ELSE IF t.contractAge <= 6 THEN 10
    ELSE IF t.contractAge <= 29 THEN 5
    ELSE 0
TableFunctions(c) == 10 * c.critical + 5 * c.high + 2 * c.medium
TableLiquidity(l) ==
      (CASE l.liquidityUSD < 1000 -> 15
         [] l.liquidityUSD >= 1000 /\ l.liquidityUSD < 10000 -> 10
         [] l.liquidityUSD >= 10000 /\ l.liquidityUSD < 50000 -> 5
         [] l.liquidityUSD >= 50000 -> 0)
    + (CASE l.safePercent < 20 -> 10
         [] l.safePercent >= 20 /\ l.safePercent < 50 -> 7
         [] l.safePercent >= 50 /\ l.safePercent < 80 -> 3
         [] l.safePercent >= 80 -> 0)
TableHolders(h) ==
      (CASE h.top1Percent > 30 -> 15
         [] h.top1Percent > 20 /\ h.top1Percent <= 30 -> 10
         [] h.top1Percent > 10 /\ h.top1Percent <= 20 -> 5
         [] h.top1Percent <= 10 -> 0)
    + (CASE h.top10Percent > 70 -> 10
         [] h.top10Percent > 50 /\ h.top10Percent <= 70 -> 5
         [] h.top10Percent <= 50 -> 0)
TableFlag(flag, points) == IF flag THEN points ELSE 0
TableHoneypot(h) ==
      TableFlag(h.isHoneypot, 50) + TableFlag(h.cannotBuy, 20)
    + TableFlag(h.cannotSellAll, 20) + TableFlag(h.ownerCanChangeBalance, 15)
    + TableFlag(h.hiddenOwner, 10) + TableFlag(h.canTakeBackOwnership, 10)
    + (CASE h.sellTax > 50 -> 25
         [] h.sellTax > 20 /\ h.sellTax <= 50 -> 10
         [] h.sellTax > 10 /\ h.sellTax <= 20 -> 5
         [] h.sellTax <= 10 -> 0)
TableSum(r) ==
      (IF r.tokenInfo.success THEN TableOwnership(r.tokenInfo) + TableAge(r.tokenInfo) ELSE 0)
    + (IF r.contractScan.success THEN TableFunctions(r.contractScan) ELSE 15)
    + (IF r.liquidity.success THEN TableLiquidity(r.liquidity) ELSE 20)
    + (IF r.holders.success THEN TableHolders(r.holders) ELSE 0)
    + (IF r.honeypot.success THEN TableHoneypot(r.honeypot) ELSE 0)

\* C9: the returned score is min(100, sum of the table contributions); the
\* all-adverse scan without honeypot scores 85, CRITICAL, and the all-clean
\* scan scores 0, LOW.
C9_ScoreIsTableSum ==
    pc = "returned" =>
        /\ riskScore = Min(100, TableSum(results))
        /\ results = AdverseScan => (riskScore = 85 /\ riskLevel = "CRITICAL")
        /\ results = CleanScan => (riskScore = 0 /\ riskLevel = "LOW")

\* the all-adverse scan has been scored 85
C9_Witness == pc = "returned" /\ results = AdverseScan /\ riskScore = 85

\* C10: the scoring step never raises, also with every signal failed or a
\* slot null: it is always able to run, and it returns a score in 0..100
\* with one of the four verdicts.
C10_AggregatorNeverFails ==
    /\ pc # "threw"
    /\ pc = "collected" => ENABLED Score
    /\ pc = "returned" => (riskScore \in 0..100 /\ riskLevel \in Verdicts)

\* a scan with a null slot has been scored
C10_Witness ==
    /\ pc = "returned"
    /\ \E k \in ScoredSlots : results[k].isNull
    /\ riskLevel \in Verdicts

\* C11: every result a fetcher returns has risk UNKNOWN when success is
\* false, and a risk among LOW, MEDIUM, HIGH, CRITICAL when success is true.
C11_RiskMatchesSuccess ==
    \A r \in fetched :
        ~r.threw =>
            /\ ~r.success => r.risk = "UNKNOWN"
            /\ r.success => r.risk \in RiskLabels

\* A network call that fetcher f issued under upstream u ended in a
\* transport error, a timeout, an unparsable body or a revert.
SomeCallFailed(f, u) ==
    CASE f = "tokenInfo" ->
            \/ u.erc20 # "ok"
            \/ u.owner # "ok"
            \/ u.apiKey /\ u.txlist # "ok"
      [] f = "contractScan" -> u.apiKey /\ (u.getabi # "ok" \/ ~u.abiParses)
      [] f = "liquidity" ->
            \/ u.dex # "ok"
            \/ u.pair \in {"reverted", "error"}
            \/ u.pair = "ok" /\ u.poolLiquidity > 0 /\ u.lpSupply # "ok"
      [] f = "holders" ->
            \/ u.moralis # "ok"
            \/ ~u.moralisRows /\ u.goplus # "ok"
      [] f = "honeypot" -> u.goplus # "ok"
      [] f = "sentiment" -> u.dex # "ok"

\* Every source fetcher f can take its data from failed that way.
EverySourceFailed(f, u) ==
    CASE f = "tokenInfo" -> u.erc20 # "ok"
      [] f = "contractScan" -> u.apiKey /\ (u.getabi # "ok" \/ ~u.abiParses)
      [] f = "liquidity" -> u.dex # "ok" /\ u.pair \in {"reverted", "error"}
      [] f = "holders" -> u.moralis # "ok" /\ u.goplus # "ok"
      [] f = "honeypot" -> u.goplus # "ok"
      [] f = "sentiment" -> u.dex # "ok"

\* C12 as stated: on a supported chain no fetcher throws, and whenever one
\* of its calls fails (transport error, timeout, unparsable response,
\* revert) the fetcher returns success = false.
C12_AnyFailureGivesFailedResult ==
    upstream.chainSupported =>
        \A r \in fetched :
            /\ ~r.threw
            /\ SomeCallFailed(fetcher, upstream) => ~r.success

\* C12 amended: on a supported chain no fetcher throws; it returns
\* success = false when every source of its data failed, while a failed
\* secondary call or a failed source with an answering fallback is absorbed.
C12_FetchersAbsorbFailures ==
    upstream.chainSupported =>
        \A r \in fetched :
            /\ ~r.threw
            /\ EverySourceFailed(fetcher, upstream) => ~r.success

\* checkHolders has settled after Moralis failed in transport and GoPlus
\* timed out.
C12_Witness ==
    /\ fetcher = "holders"
    /\ upstream.chainSupported
    /\ upstream.moralis = "error"
    /\ upstream.goplus = "timeout"
    /\ \E r \in fetched : ~r.threw /\ ~r.success

\* C13: on every entry path no fetcher is invoked for an address that is
\* not 0x followed by 40 hex digits.
C13_MalformedAddressNeverFetched ==
    invoked # {} => isValidAddress(address)

\* C14: checkLiquidity is called only once checkTokenInfo has settled, and
\* with its result; the scoring code is reached, and a score exists, only
\* once all six fetchers have settled.
C14_LiquidityAfterTokenInfo ==
    /\ "liquidity" \in invoked =>
            /\ ~results.tokenInfo.isNull
            /\ liquidityArg = {results.tokenInfo}
    /\ (pc \in {"collected", "returned"} \/ riskLevel # "undefined") =>
            \A k \in Slots : ~results[k].isNull

\* A command-line scan has returned; checkLiquidity, third in rugCheck, was
\* handed the successful token info.
C14_Witness ==
    /\ entry = "cli"
    /\ pc = "returned"
    /\ results.tokenInfo.success
    /\ liquidityArg = {results.tokenInfo}
    /\ results.liquidity.success

\* C15: on a supported chain a failure result of one fetcher does not stop
\* the scan: while fetchers remain the next one is called, and a returned
\* scan has called all six and holds a result under each of the six keys.
C15_FailureDoesNotAbort ==
    chainKnown =>
        /\ pc = "scanning" => ENABLED Invoke
        /\ pc = "returned" =>
                /\ invoked = Fetchers
                /\ \A k \in Slots : ~results[k].isNull

\* A bot scan has returned although checkTokenInfo and checkHolders failed;
\* the fetchers after them ran and checkHoneypot succeeded.
C15_Witness ==
    /\ entry = "message"
    /\ pc = "returned"
    /\ Failed(results.tokenInfo)
    /\ Failed(results.holders)
    /\ results.honeypot.success
    /\ invoked = Fetchers

\* C16: every call a fetcher waits on is abandoned at a deadline when its
\* service never answers, so whichever services stay silent the awaited
\* fetcher settles and the scan goes on to its verdict.
C16_SilentUpstreamNeverStallsScan ==
    pc = "awaiting" => ENABLED Resolve

C18_CacheExpiresAfter60s ==
    [][/\ \A c \in Callers :
            (callerPc[c] = "idle" /\ callerPc'[c] # "idle") =>
                IF \E e \in priceCache[key[c]] : now - e.time < 60000
                THEN /\ callerPc'[c] = "done"
                     /\ how'[c] = "cached"
                     /\ \A e \in priceCache[key[c]] : ret'[c] = e.price
                ELSE callerPc'[c] = "fetching"
       /\ \A k \in Keys :
            priceCache'[k] # priceCache[k] =>
                \E c \in Callers :
                    /\ key[c] = k
                    /\ callerPc[c] = "fetching"
                    /\ how'[c] = "fetched"
                    /\ priceCache'[k] = {[price |-> ret'[c], time |-> now]}
      ]_vars

\* A call found an entry exactly 60000 ms old and is fetching.
C18_Witness ==
    \E c \in Callers :
        /\ callerPc[c] = "fetching"
        /\ \E e \in priceCache[key[c]] : calledAt[c] - e.time = 60000

\* C19: under every interleaving of the calls the entry of a key is the
\* whole { price, time } pair of the call that set it last, and every
\* call that has returned returned the price it fetched, a cached price,
\* or the fallback of its key.
C19_LastWriterWins ==
    /\ \A k \in Keys :
            IF lastWriter[k] = 0
            THEN priceCache[k] = {}
            ELSE /\ key[lastWriter[k]] = k
                 /\ priceCache[k] = wrote[lastWriter[k]]
                 /\ Cardinality(priceCache[k]) = 1
    /\ \A c \in Callers :
            callerPc[c] = "done" =>
                CASE how[c] = "fetched" ->
                        \E w \in wrote[c] : w.price = ret[c] /\ w.time >= calledAt[c]
                  [] how[c] = "cached" -> ret[c] \in Prices
                  [] how[c] = "fallback" -> ret[c] = Fallback(key[c])
                  [] OTHER -> FALSE

\* Two calls for the same key both missed the cache, were in flight
\* together, fetched different prices and have both returned.
C19_Witness ==
    /\ key[1] = key[2]
    /\ \A c \in {1, 2} : callerPc[c] = "done" /\ how[c] = "fetched"
    /\ \E w1 \in wrote[1], w2 \in wrote[2] :
            /\ w1.price # w2.price
            /\ calledAt[1] <= w2.time
            /\ calledAt[2] <= w1.time

\* What the ownership line of the Token Info block adds for a token-info
\* result: the block's points when no contract age is known.
OwnershipPoints(r) ==
    TokenInfoPoints([CleanScan EXCEPT
                        !.tokenInfo = [AsSlot("tokenInfo", r) EXCEPT !.contractAge = NoAge]])

\* C20: when owner() returns one of BURN_ADDRESSES, checkTokenInfo reports
\* ownerStatus 'renounced' and ownership adds 0 to the score.
C20_BurnOwnerIsRenounced ==
    (/\ fetcher = "tokenInfo"
     /\ upstream.chainSupported
     /\ upstream.erc20 = "ok"
     /\ upstream.owner = "ok"
     /\ upstream.ownerAddress \in BURN_ADDRESSES)
    => \A r \in fetched :
          /\ r.ownerStatus = "renounced"
          /\ OwnershipPoints(r) = 0

\* The maxima the scoring code documents above its category blocks
\* ("Token Info (max 20 points)" and so on).
TokenInfoMax == 20
ContractFunctionsMax == 30
LiquidityMax == 25
HoldersMax == 25
HoneypotMax == 50

\* C21: in the aggregate score no category contributes more than its
\* documented maximum: Token Info 20, Contract Functions 30, Liquidity 25,
\* Holders 25, Honeypot 50, for any signal results.
C21_CategoryWithinDocumentedMax ==
    pc = "returned" =>
        /\ TokenInfoPoints(results) <= TokenInfoMax
        /\ ContractScanPoints(results) <= ContractFunctionsMax
        /\ LiquidityPoints(results) <= LiquidityMax
        /\ HoldersPoints(results) <= HoldersMax
        /\ HoneypotPoints(results) <= HoneypotMax

\* C22: a call of getNativeTokenPrice whose CoinGecko request failed
\* (request error, timeout, unparsable or empty body) has asked DexScreener
\* for the wrapped token's price before it returns the hard-coded default.
C22_DexScreenerBeforeFallback ==
    \A c \in Callers : how[c] = "fallback" => "DexScreener" \in asked[c]

\* Moralis answered with a non-empty data.result / GoPlus answered with
\* code 1 and a non-empty holders array for the token
MoralisYieldsHolders == upstream.moralis = "ok" /\ upstream.moralisRows
GoPlusYieldsHolders == upstream.goplus = "ok" /\ upstream.goplusRows

C24_DuplicatesAgree ==
    pc = "returned" =>
        /\ rugCheckMultiChain(results).riskScore = riskScore
        /\ rugCheckMultiChain(results).overallRisk = riskLevel
        /\ rugCheckSingleChain(results).riskScore = riskScore
        /\ rugCheckSingleChain(results).overallRisk = riskLevel
        /\ silentScanSingleChain(results).riskScore = riskScore
        /\ silentScanSingleChain(results).riskLevel = riskLevel

\* A scored results object that takes the else branch of the liquidity
\* block, a null slot and the cap of 100 in every copy.
C24_Witness ==
    /\ pc = "returned"
    /\ Failed(results.liquidity)
    /\ results.contractScan.isNull
    /\ HoneypotDetected
    /\ riskScore = 100
    /\ rugCheckMultiChain(results).overallRisk = "CRITICAL"

\* C25: the score and the verdict do not depend on the sentiment signal:
\* a scan whose results differ from the scored one only in the sentiment
\* result (null, failed, or succeeded with any sentimentScore) gets the
\* same score and the same verdict.
C25_SentimentIndependence ==
    pc = "returned" =>
        \A s \in SlotValues("sentiment") :
            /\ ScoreOutcome([results EXCEPT !.sentiment = s]).pc = "returned"
            /\ ScoreOutcome([results EXCEPT !.sentiment = s]).riskScore = riskScore
            /\ ScoreOutcome([results EXCEPT !.sentiment = s]).riskLevel = riskLevel

\* A scored scan with a successful sentiment result of score 0 and a
\* verdict below the cap, so that an added point would show.
C25_Witness ==
    /\ pc = "returned"
    /\ results.sentiment.success
    /\ results.sentiment.sentimentScore = 0
    /\ riskScore > 0
    /\ riskScore < 100

\* the entries of a cache, and the data it holds for a pair
CacheEntries(cache) == {cache[i] : i \in DOMAIN cache}
CachedFor(cache, k) == {e.data : e \in {x \in CacheEntries(cache) : x.pair = k}}

\* press p's handler finishes its scan in this step
ScanEnds(p) == presses[p].pc = "scanning" /\ presses'[p].pc = "done"

\* C26: scanCache never holds more than 100 entries once a handler has
\* stored its scan; a successful scan of a new pair on a full cache evicts
\* the entry that was inserted earliest and nothing else; a scan that
\* fails leaves the cache unchanged.
C26_ScanCacheBounded ==
    /\ [](Len(scanCache) <= ScanCacheLimit)
    /\ [][\A p \in Presses :
            ScanEnds(p) =>
                IF presses'[p].outcome = "failed"
                THEN scanCache' = scanCache
                ELSE IF CachedFor(scanCache, presses[p].pair) = {}
                        /\ Len(scanCache) = ScanCacheLimit
                THEN \E old \in CacheEntries(scanCache) :
                        /\ \A e \in CacheEntries(scanCache) : old.since <= e.since
                        /\ \E new \in CacheEntries(scanCache') :
                              /\ new.pair = presses[p].pair
                              /\ new.data = p
                              /\ CacheEntries(scanCache') =
                                    (CacheEntries(scanCache) \ {old}) \cup {new}
                ELSE \A e \in CacheEntries(scanCache) :
                        \E f \in CacheEntries(scanCache') : f.pair = e.pair
         ]_vars

\* A full cache took the scan of a new pair, its earliest entry is gone,
\* and another scan failed.
C26_Witness ==
    /\ Len(scanCache) = ScanCacheLimit
    /\ CachedFor(scanCache, 1) = {}
    /\ CachedFor(scanCache, ScanCacheLimit + 1) # {}
    /\ \E p \in Presses : presses[p].outcome = "failed"

\* press p arrives in this step
Arriving(p) == presses[p].pc = "idle" /\ presses'[p].pc # "idle"

\* C27: Full Report and Summary for a pair with a cached scan render from
\* the cached data without scanning; without a cached scan they run a new
\* scan; Rescan runs a new scan whether or not the pair is cached, and the
\* data that scan returns replaces the pair's entry.
C27_ButtonsAndCache ==
    [][\A p \in Presses :
          /\ (Arriving(p) /\ presses'[p].kind \in {"full", "summary"}) =>
                IF CachedFor(scanCache, presses'[p].pair) # {}
                THEN /\ presses'[p].pc = "done"
                     /\ presses'[p].outcome = "rendered"
                     /\ presses'[p].shown = CachedFor(scanCache, presses'[p].pair)
                     /\ scanCache' = scanCache
                ELSE presses'[p].pc = "scanning"
          /\ (Arriving(p) /\ presses'[p].kind = "rescan") => presses'[p].pc = "scanning"
          /\ (ScanEnds(p) /\ presses'[p].outcome = "scanned") =>
                CachedFor(scanCache', presses[p].pair) = {p}
      ]_vars

\* Rescan of a cached pair replaced its data, and Full Report then
\* rendered the new data from the cache.
C27_Witness ==
    /\ presses[1].kind = "rescan"
    /\ presses[1].pair = 1
    /\ presses[1].outcome = "scanned"
    /\ presses[2].kind = "full"
    /\ presses[2].pair = 1
    /\ presses[2].outcome = "rendered"
    /\ presses[2].shown = {1}
    /\ Len(scanCache) = ScanCacheLimit

\* the chain has a backup RPC that is not marked failed
HasLiveBackup(c) ==
    \E i \in DOMAIN ChainRpcBackup(c) : ChainRpcBackup(c)[i] \notin failedRpcs

\* C28: once switchToBackupRpc has marked a chain's primary RPC as failed
\* and a backup that is not failed exists, a getProvider call for that
\* chain, under its key or an alias, does not return a provider bound to
\* the failed primary RPC.
C28_NoProviderOnFailedPrimary ==
    (/\ lastCall.op = "getProvider"
     /\ getChain(lastCall.chainKey) # "null"
     /\ ChainRpc(getChain(lastCall.chainKey)) \in failedRpcs
     /\ HasLiveBackup(getChain(lastCall.chainKey)))
    => ChainRpc(getChain(lastCall.chainKey)) \notin lastCall.rpc

\* The rows of a list that are no burn addresses, and for such a row how
\* many of them come up to it in the list (its rank among the holders).
NonBurnRows(list) == {i \in DOMAIN list : ~list[i].burn}
RankAmongHolders(list, i) == Cardinality({j \in NonBurnRows(list) : j <= i})

RECURSIVE SumShares(_, _)
SumShares(list, idx) ==
    IF idx = {} THEN 0
    ELSE LET i == CHOOSE x \in idx : TRUE
         IN  list[i].share + SumShares(list, idx \ {i})

\* In a list ordered by descending share: the share of the largest holder
\* that is no burn address (0 without one), and the sum of the shares of
\* the ten largest such holders.
LargestHolderShare(list) ==
    SumShares(list, {i \in NonBurnRows(list) : RankAmongHolders(list, i) = 1})
TenLargestHolderShares(list) ==
    SumShares(list, {i \in NonBurnRows(list) : RankAmongHolders(list, i) <= 10})

\* C29: on a holder list ordered by descending share, checkHolders and
\* analyzeHolders both report as top1Percent the share of the largest
\* holder that is no burn address and as top10Percent the sum of the shares
\* of the ten largest such holders, also when the list starts with a burn
\* address.
C29_TopSharesSkipBurnAddresses ==
    \A r \in analysed :
        /\ r.unified.top1Percent = LargestHolderShare(rows)
        /\ r.unified.top10Percent = TenLargestHolderShares(rows)
        /\ r.standalone.top1Percent = LargestHolderShare(rows)
        /\ r.standalone.top10Percent = TenLargestHolderShares(rows)

\* C30: a successful checkLiquidity result is labelled LOW, MEDIUM or
\* CRITICAL and never HIGH, whatever liquidityUSD and safePercent are.
C30_LiquidityNeverHigh ==
    fetcher = "liquidity" =>
        \A r \in fetched :
            (~r.threw /\ r.success) => r.risk \in {"LOW", "MEDIUM", "CRITICAL"}

\* A pool of at least 50000 USD with less than half of the LP tokens safe:
\* the HIGH test would apply, the label is MEDIUM.
C30_Witness ==
    /\ fetcher = "liquidity"
    /\ \E r \in fetched :
          /\ ~r.threw
          /\ r.success
          /\ r.liquidityUSD >= 50000
          /\ r.safePercent < 50
          /\ r.risk = "MEDIUM"

====
